---------------------------- MODULE Spec2Model ----------------------------
(***************************************************************************)
(* A model of the webhook event relay: idempotent ingestion                *)
(* (EventController.processEvent), the BullMQ queue 'webhook-delivery'     *)
(* (WebhookService), and the worker that fans an event out and delivers it *)
(* (WebhookWorker).                                                        *)
(*                                                                         *)
(* Every await of a handler is a step of its own, so that concurrent       *)
(* requests and jobs interleave exactly where the event loop lets them.    *)
(***************************************************************************)
EXTENDS Naturals, Sequences, FiniteSets

(***************************************************************************)
(* Bounds of the model.                                                    *)
(***************************************************************************)
NumRequests == 2

Requests == 1..NumRequests

(***************************************************************************)
(* JavaScript values as they reach the handlers.  t is the kind of the     *)
(* value, s the characters of a string, n a number or, for an array or an  *)
(* object, the length of its JSON.stringify text.                          *)
(***************************************************************************)
JsUndefined == [t |-> "undefined", s |-> <<>>, n |-> 0]

JsNull == [t |-> "null", s |-> <<>>, n |-> 0]

JsString(chars) == [t |-> "string", s |-> chars, n |-> 0]

JsNumber(k) == [t |-> "number", s |-> <<>>, n |-> k]

JsArray(len) == [t |-> "array", s |-> <<>>, n |-> len]

JsObject(len) == [t |-> "object", s |-> <<>>, n |-> len]

\* typeof v
TypeOf(v) == IF v.t \in {"null", "array", "object"} THEN "object" ELSE v.t

\* !v
Falsy(v) ==
    \/ v.t \in {"undefined", "null"}
    \/ v.t = "string" /\ v.s = <<>>
    \/ v.t = "number" /\ v.n = 0

\* s.trim(): leading and trailing white space removed
RECURSIVE TrimLeft(_)
TrimLeft(chars) ==
    IF chars # <<>> /\ Head(chars) = " " THEN TrimLeft(Tail(chars)) ELSE chars

RECURSIVE TrimRight(_)
TrimRight(chars) ==
    IF chars # <<>> /\ chars[Len(chars)] = " "
    THEN TrimRight(SubSeq(chars, 1, Len(chars) - 1))
    ELSE chars

Trim(chars) == TrimRight(TrimLeft(chars))

\* the character class of /^[a-zA-Z0-9._-]+$/
EventTypeChars == {"a", "Z", "1", ".", "_", "-"}

eventTypeRegex(chars) ==
    /\ Len(chars) >= 1
    /\ \A i \in 1..Len(chars) : chars[i] \in EventTypeChars

PayloadLimit == 1024 * 1024

(***************************************************************************)
(* validateEventRequest: the error it reports, "" when the body is valid.  *)
(***************************************************************************)
validateEventRequest_noRegex(eventType, payload) ==
    IF Falsy(eventType) \/ TypeOf(eventType) # "string"
    THEN "eventType is required and must be a string"
    ELSE IF Len(Trim(eventType.s)) = 0
    THEN "eventType cannot be empty"
    ELSE IF payload.t \in {"undefined", "null"}
    THEN "payload is required"
    ELSE IF TypeOf(payload) # "object"
    THEN "payload must be an object"
    ELSE IF payload.n > PayloadLimit
    THEN "payload size exceeds 1MB limit"
    ELSE ""

validateEventRequest(eventType, payload) ==
    IF Falsy(eventType) \/ TypeOf(eventType) # "string"
    THEN "eventType is required and must be a string"
    ELSE IF Len(Trim(eventType.s)) = 0
    THEN "eventType cannot be empty"
    ELSE IF ~eventTypeRegex(eventType.s)
    THEN "eventType must contain only alphanumeric characters, dots, underscores, and hyphens"
    ELSE IF payload.t \in {"undefined", "null"}
    THEN "payload is required"
    ELSE IF TypeOf(payload) # "object"
    THEN "payload must be an object"
    ELSE IF payload.n > PayloadLimit
    THEN "payload size exceeds 1MB limit"
    ELSE ""

(***************************************************************************)
(* State.                                                                  *)
(*   events   the Event table of the store                                 *)
(*   req      the POST /events requests, each at its await                 *)
(*   jobs     the jobs of the queue 'webhook-delivery', by job id          *)
(*   subs     the Subscription table                                       *)
(*   logs     the DeliveryLog table                                        *)
(*   posts    the HTTP POSTs the worker has sent                           *)
(*   adm      the admin requests (create subscription, retry), each at its *)
(*            await                                                        *)
(*   receiver the object the queue library invokes the processor on        *)
(*   MAX_RETRY_ATTEMPTS  the environment's setting                         *)
(***************************************************************************)
VARIABLES events, req, jobs, subs, logs, posts, adm, receiver,
          MAX_RETRY_ATTEMPTS, proc

vars == <<events, req, jobs, subs, logs, posts, adm, receiver,
          MAX_RETRY_ATTEMPTS, proc>>

\* What the handlers of POST /events leave alone.
pipeline == <<subs, logs, posts, adm, receiver, MAX_RETRY_ATTEMPTS, proc>>

\* A request that has not arrived.  The fields after eventId record what
\* the handler did: inserted the row, enqueued the fan-out job, saw the
\* enqueue fail, saw its insert refused; prior is the set of event ids that
\* requests with its key had reported with 202 when it arrived, subscribers
\* the subscriptions active for its event type when it enqueued the fan-out.
IdleRequest ==
    [pc |-> "idle", header |-> JsUndefined, eventType |-> JsUndefined,
     payload |-> JsUndefined, status |-> 0, code |-> "", eventId |-> 0,
     inserted |-> FALSE, enqueued |-> FALSE, queueFailed |-> FALSE,
     lostInsert |-> FALSE, prior |-> {}, subscribers |-> {}]

\* The Event rows that carry an idempotency key.
EventsWithKey(evs, key) == {e \in evs : e.idempotency_key = key}

\* prisma.event.findUnique({ where: { idempotency_key } })
findUniqueByKey_none(evs, key) == {}

findUniqueByKey(evs, key) == EventsWithKey(evs, key)

\* The @unique constraint on Event.idempotency_key, as the store applies it
\* to an insert.
UniqueViolation_off(evs, key) == FALSE

UniqueViolation(evs, key) == EventsWithKey(evs, key) # {}

\* @default(uuid()): an id no row has had (Event rows are never deleted).
NewEventId(evs) == Cardinality(evs) + 1

\* The row prisma.event.create inserts.
EventRow(evs, key, eventType, payload) ==
    [id |-> NewEventId(evs), idempotency_key |-> key,
     event_type |-> eventType, payload |-> payload]

\* The response of the catch block of processEvent to a failed insert.
processEventCatch_internal(message) ==
    [status |-> 500, code |-> "INTERNAL_ERROR"]

processEventCatch(message) ==
    IF message = "Unique constraint"
    THEN [status |-> 409, code |-> "DUPLICATE_IDEMPOTENCY_KEY"]
    ELSE [status |-> 500, code |-> "INTERNAL_ERROR"]

\* The event ids that completed requests with this header have reported
\* with 202.
AcceptedIds(rq, header) ==
    {rq[q].eventId : q \in {p \in Requests :
        rq[p].pc = "done" /\ rq[p].status = 202 /\ rq[p].header = header}}

(***************************************************************************)
(* The queue.  A job is waiting, active (a worker runs it), completed or   *)
(* failed; attempts is its opts.attempts, attemptsMade the attempts that   *)
(* have ended.                                                             *)
(***************************************************************************)
\* The subscription a delivery job has not loaded.
NoSubscription ==
    [id |-> 0, event_type |-> <<>>, target_url |-> [protocol |-> "", host |-> ""],
     secret_key |-> 0, is_active |-> FALSE]

\* The id of no DeliveryLog row.
NoLog == <<>>

\* The response a delivery job has not received.
NoResponse == [kind |-> "", status |-> 0]

\* A job as queue.add stores it; pc and what follows it are the locals of the
\* processor while a worker runs the job.
NewJob(type, eventId, eventType, subscriptionId, attempts, backoff, by) ==
    [type |-> type, eventId |-> eventId, eventType |-> eventType,
     subscriptionId |-> subscriptionId, attempts |-> attempts,
     backoff |-> backoff,
     attemptsMade |-> 0, state |-> "waiting", by |-> by,
     pc |-> "", pending |-> {}, addFailed |-> FALSE,
     createRefused |-> FALSE,
     subscription |-> NoSubscription, logId |-> NoLog,
     response |-> NoResponse]

\* The queue gives every job an id of its own.  The model names a job after
\* the call that added it: <<"request", r, 0>> is the job request r added,
\* <<"fanout", r, s>> the job the fan-out of request r's event added for
\* subscription s, <<"retry", a, 0>> the job admin request a added.
JobId(kind, n, s) == <<kind, n, s>>

\* queue.add(name, data, opts)
QueueAdd(q, id, job) ==
    [i \in DOMAIN q \cup {id} |-> IF i = id THEN job ELSE q[i]]

\* The options of an add that names no backoff.
NoBackoff == [type |-> "fixed", delay |-> 0]

FanOutJob(eventId, eventType, by) ==
    NewJob("process-webhook-deliveries", eventId, eventType, 0, 1, NoBackoff,
           by)

\* WebhookService.queueWebhookDeliveries: queue.add('process-webhook-deliveries')
queueWebhookDeliveries(q, eventId, eventType, by) ==
    QueueAdd(q, by, FanOutJob(eventId, eventType, by))

(***************************************************************************)
(* EventController.processEvent                                            *)
(***************************************************************************)
\* The synchronous head of the handler: the header check and the
\* validation of the body.
processEvent_receive(r, header, eventType, payload) ==
    /\ req[r].pc = "idle"
    /\ LET arrived == [req[r] EXCEPT !.header = header,
                                     !.eventType = eventType,
                                     !.payload = payload,
                                     !.prior = AcceptedIds(req, header)]
       IN  req' = [req EXCEPT ![r] =
             IF Falsy(header)
             THEN [arrived EXCEPT !.pc = "done", !.status = 400,
                                  !.code = "MISSING_IDEMPOTENCY_KEY"]
             ELSE IF validateEventRequest(eventType, payload) # ""
             THEN [arrived EXCEPT !.pc = "done", !.status = 400,
                                  !.code = "VALIDATION_ERROR"]
             ELSE [arrived EXCEPT !.pc = "findUnique"]]
    /\ UNCHANGED <<events, jobs, pipeline>>

\* What the duplicate branch of processEvent does to the Event table: it
\* answers from the stored row and writes nothing.
eventsAfterDuplicate_upsert(evs, existing, eventType, payload) ==
    (evs \ existing)
        \cup {[e EXCEPT !.event_type = eventType, !.payload = payload] :
                  e \in existing}

eventsAfterDuplicate(evs, existing, eventType, payload) == evs

\* await prisma.event.findUnique, and the 202 of the duplicate branch.
processEvent_findUnique(r) ==
    /\ req[r].pc = "findUnique"
    /\ LET existing == findUniqueByKey(events, req[r].header.s)
       IN  /\ req' = [req EXCEPT ![r] =
                 IF existing # {}
                 THEN [@ EXCEPT !.pc = "done", !.status = 202,
                                !.eventId = (CHOOSE e \in existing : TRUE).id]
                 ELSE [@ EXCEPT !.pc = "create"]]
           /\ events' = IF existing # {}
                        THEN eventsAfterDuplicate(events, existing,
                                 req[r].eventType, req[r].payload)
                        ELSE events
    /\ UNCHANGED <<jobs, pipeline>>

\* await prisma.event.create; a violated unique constraint throws into the
\* catch block.
processEvent_create(r) ==
    /\ req[r].pc = "create"
    /\ IF UniqueViolation(events, req[r].header.s)
       THEN /\ req' = [req EXCEPT ![r] =
                 [@ EXCEPT !.pc = "done", !.lostInsert = TRUE,
                           !.status = processEventCatch("Unique constraint").status,
                           !.code = processEventCatch("Unique constraint").code]]
            /\ UNCHANGED events
       ELSE LET row == EventRow(events, req[r].header.s,
                                req[r].eventType, req[r].payload)
            IN  /\ events' = events \cup {row}
                /\ req' = [req EXCEPT ![r] =
                     [@ EXCEPT !.pc = "queue", !.inserted = TRUE,
                               !.eventId = row.id]]
    /\ UNCHANGED <<jobs, pipeline>>

\* catch (queueError) of processEvent: the error is logged and dropped.
queueErrorCaught_rethrown == FALSE

queueErrorCaught == TRUE

\* What the handler does to the Event table when the enqueue has failed.
eventsAfterQueueError_rollback(evs, id) == {e \in evs : e.id # id}

eventsAfterQueueError(evs, id) == evs

\* await WebhookService.queueWebhookDeliveries, then the 202.
processEvent_queue(r) ==
    /\ req[r].pc = "queue"
    /\ \/ /\ jobs' = queueWebhookDeliveries(jobs, req[r].eventId,
                                            req[r].eventType.s,
                                            JobId("request", r, 0))
          /\ req' = [req EXCEPT ![r] =
                [@ EXCEPT !.pc = "done", !.enqueued = TRUE, !.status = 202,
                          !.subscribers =
                              {s.id : s \in {t \in subs :
                                  /\ t.event_type = req[r].eventType.s
                                  /\ t.is_active}}]]
          /\ UNCHANGED events
       \/ \* queue.add throws
          /\ events' = eventsAfterQueueError(events, req[r].eventId)
          /\ req' = [req EXCEPT ![r] =
                IF queueErrorCaught
                THEN [@ EXCEPT !.pc = "done", !.queueFailed = TRUE,
                               !.status = 202]
                ELSE [@ EXCEPT !.pc = "done", !.queueFailed = TRUE,
                               !.status = processEventCatch("queue").status,
                               !.code = processEventCatch("queue").code]]
          /\ UNCHANGED jobs
    /\ UNCHANGED pipeline

processEvent(r) ==
    \/ processEvent_findUnique(r)
    \/ processEvent_create(r)
    \/ processEvent_queue(r)

(***************************************************************************)
(* The queue's side of a job: queue.add of a delivery job, and what the    *)
(* queue does when the processor returns or throws.                        *)
(***************************************************************************)
DeliveryJob(eventId, subscriptionId, attempts, backoff, by) ==
    NewJob("deliver-webhook", eventId, <<>>, subscriptionId, attempts, backoff,
           by)

\* backoff: { type: 'exponential', delay: 2000 }
ExponentialBackoff == [type |-> "exponential", delay |-> 2000]

\* WebhookWorker.queueIndividualDelivery: queue.add('deliver-webhook') with
\* attempts: parseInt(process.env.MAX_RETRY_ATTEMPTS || '3')
queueIndividualDelivery(q, eventId, subscriptionId, attempts, by) ==
    QueueAdd(q, by, DeliveryJob(eventId, subscriptionId, attempts,
                                ExponentialBackoff, by))

\* WebhookService.queueWebhookDelivery: the same add, for a manual retry
queueWebhookDelivery_once(q, eventId, subscriptionId, attempts, by) ==
    QueueAdd(q, by, DeliveryJob(eventId, subscriptionId, 1, NoBackoff, by))

queueWebhookDelivery(q, eventId, subscriptionId, attempts, by) ==
    QueueAdd(q, by, DeliveryJob(eventId, subscriptionId, attempts,
                                ExponentialBackoff, by))

\* The locals of the processor are gone when it has returned or thrown.
Released(job) ==
    [job EXCEPT !.pc = "", !.subscription = NoSubscription, !.logId = NoLog,
                !.response = NoResponse]

\* The processor threw: the queue retries the job while attempts remain
\* (after its backoff delay), and fails it for good otherwise.
jobFailed_oneMore(job) ==
    [Released(job) EXCEPT
        !.attemptsMade = @ + 1,
        !.state = IF job.attemptsMade + 1 <= job.attempts
                  THEN "waiting" ELSE "failed"]

jobFailed(job) ==
    [Released(job) EXCEPT
        !.attemptsMade = @ + 1,
        !.state = IF job.attemptsMade + 1 < job.attempts
                  THEN "waiting" ELSE "failed"]

\* The processor returned.
jobCompleted(job) ==
    [Released(job) EXCEPT !.attemptsMade = @ + 1, !.state = "completed"]

JobIds == DOMAIN jobs

ActiveJobs == {j \in JobIds : jobs[j].state = "active"}

\* parseInt(process.env.WEBHOOK_CONCURRENCY || '5'), bounded for the model
WorkerConcurrency == 2

(***************************************************************************)
(* WebhookWorker.processJob, as the Worker of initialize() invokes it.     *)
(* initialize() hands the queue library the method reference               *)
(* this.processJob; the method reads this.processWebhookDeliveries and     *)
(* this.processWebhookDelivery, which exist only when the library invokes  *)
(* it on WebhookWorker.  On any other receiver the call throws a TypeError *)
(* inside the try block, which the catch block rethrows.  The library is   *)
(* not part of the repository: receiver is "Worker" when it calls the      *)
(* processor as a method of its Worker object (as BullMQ does), and        *)
(* "WebhookWorker" when it calls it on the class.                          *)
(***************************************************************************)
HandlerResolves(rcv) == rcv = "WebhookWorker"

processJob(j) ==
    /\ j \in JobIds
    /\ jobs[j].state = "waiting"
    /\ Cardinality(ActiveJobs) < WorkerConcurrency
    /\ jobs' = [jobs EXCEPT ![j] =
          IF ~HandlerResolves(receiver)
          THEN jobFailed(@)
          ELSE [@ EXCEPT !.state = "active",
                         !.pc = IF jobs[j].type = "process-webhook-deliveries"
                                THEN "findMany" ELSE "findUnique"]]
    /\ UNCHANGED <<events, req, subs, logs, posts, adm, receiver,
                   MAX_RETRY_ATTEMPTS, proc>>

(***************************************************************************)
(* WebhookWorker.processWebhookDeliveries: the fan-out of one event.       *)
(***************************************************************************)
\* prisma.subscription.findMany({ where: { event_type, is_active: true } })
ActiveSubscriptions(sbs, eventType) ==
    {s \in sbs : s.event_type = eventType /\ s.is_active}

processWebhookDeliveries_findMany(j) ==
    /\ j \in JobIds
    /\ jobs[j].state = "active"
    /\ jobs[j].pc = "findMany"
    /\ LET subscriptions == ActiveSubscriptions(subs, jobs[j].eventType)
       IN  jobs' = [jobs EXCEPT ![j] =
             IF subscriptions = {}
             THEN jobCompleted(@)
             ELSE [@ EXCEPT !.pc = "enqueue",
                            !.pending = {s.id : s \in subscriptions}]]
    /\ UNCHANGED <<events, req, subs, logs, posts, adm, receiver,
                   MAX_RETRY_ATTEMPTS, proc>>

\* WebhookService.getQueue() returns the queue until WebhookService.shutdown
\* has closed it; proc is "running", "draining" once server.close has been
\* called, "closed" once WebhookService.shutdown has returned, and "exited"
\* after process.exit.
QueueOpen(p) == p \in {"running", "draining"}

\* One of the queue.add calls that subscriptions.map has started: it adds
\* the delivery job, or it throws.
processWebhookDeliveries_add(j, s) ==
    /\ j \in JobIds
    /\ s \in jobs[j].pending
    /\ \/ /\ QueueOpen(proc)
          /\ jobs' = queueIndividualDelivery(
                         [jobs EXCEPT ![j].pending = @ \ {s}],
                         jobs[j].eventId, s, MAX_RETRY_ATTEMPTS,
                         JobId("fanout", j[2], s))
       \/ jobs' = [jobs EXCEPT ![j].pending = @ \ {s},
                               ![j].addFailed = TRUE]
    /\ UNCHANGED <<events, req, subs, logs, posts, adm, receiver,
                   MAX_RETRY_ATTEMPTS, proc>>

\* await Promise.all(deliveryPromises): it rejects with the first add that
\* throws, and resolves when every add has returned.
processWebhookDeliveries_settle(j) ==
    /\ j \in JobIds
    /\ jobs[j].state = "active"
    /\ jobs[j].pc = "enqueue"
    /\ jobs[j].addFailed \/ jobs[j].pending = {}
    /\ jobs' = [jobs EXCEPT ![j] =
          IF @.addFailed THEN jobFailed(@) ELSE jobCompleted(@)]
    /\ UNCHANGED <<events, req, subs, logs, posts, adm, receiver,
                   MAX_RETRY_ATTEMPTS, proc>>

(***************************************************************************)
(* WebhookWorker.processWebhookDelivery: one attempt of one delivery.      *)
(***************************************************************************)
\* A nullable column: Null, or the value.
Null == <<>>

Some(v) == <<v>>

\* What axios.post can come back with: a response with a status, or no
\* response at all (DNS, connect, TLS, timeout, abort).
HttpResponse(status) == [kind |-> "response", status |-> status]

TransportError == [kind |-> "error", status |-> 0]

\* What catch (deliveryError) holds when prisma.deliveryLog.update of the
\* success branch has thrown: an error without a response.
StoreError == [kind |-> "store", status |-> 0]

\* validateStatus: (status) => status >= 200 && status < 300
validateStatus_noUpper(status) == status >= 200

validateStatus(status) == status >= 200 /\ status < 300

\* The attempt_count the worker writes into a new DeliveryLog row.
attempt_count_of(job) == 1

\* @default(uuid()): an id of its own for every row.  The model names a row
\* after the job execution that creates it.
LogId(j, job) == <<j, job.attemptsMade + 1>>

\* prisma.deliveryLog.create({ data: { status: 'pending', attempt_count: 1 } });
\* job and attempt record which job execution wrote the row.
PendingLog(j, job) ==
    [id |-> LogId(j, job), event_id |-> job.eventId,
     subscription_id |-> job.subscriptionId, status |-> "pending",
     attempt_count |-> attempt_count_of(job),
     response_status_code |-> Null, response_body |-> Null,
     error_message |-> Null,
     job |-> j, attempt |-> job.attemptsMade + 1]

\* The data of the update after a 2xx response.
SuccessData(row, response) ==
    [row EXCEPT !.status = "success",
                !.response_status_code = Some(response.status),
                !.response_body = Some("body")]

\* The data of the update in catch (deliveryError): statusCode is
\* deliveryError.response?.status || 0, responseBody the response's data or
\* null, errorMessage deliveryError.message.
FailureData(row, response) ==
    [row EXCEPT !.status = "failed",
                !.response_status_code =
                    Some(IF response.kind = "response" THEN response.status ELSE 0),
                !.response_body =
                    IF response.kind = "response" THEN Some("body") ELSE Null,
                !.error_message =
                    Some(IF response.kind = "response"
                         THEN "Request failed with status code"
                         ELSE IF response.kind = "store"
                         THEN "store error"
                         ELSE "transport error")]

\* where: { id: deliveryLog.id }: the rows an update of the handler writes.
UpdateTargets_pair(lg, logId) ==
    {l \in lg : \E own \in lg :
        /\ own.id = logId
        /\ l.event_id = own.event_id
        /\ l.subscription_id = own.subscription_id}

UpdateTargets(lg, logId) == {l \in lg : l.id = logId}

\* if (!subscription.is_active) throw
subscriptionInactive_never(subscription) == FALSE

subscriptionInactive(subscription) == ~subscription.is_active

\* await Promise.all([event.findUnique, subscription.findUnique]) and the
\* three checks that follow it; each of them throws.
processWebhookDelivery_findUnique(j) ==
    /\ j \in JobIds
    /\ jobs[j].state = "active"
    /\ jobs[j].pc = "findUnique"
    /\ LET event == {e \in events : e.id = jobs[j].eventId}
           subscription == {s \in subs : s.id = jobs[j].subscriptionId}
       IN  jobs' = [jobs EXCEPT ![j] =
             IF event = {} THEN jobFailed(@)
             ELSE IF subscription = {} THEN jobFailed(@)
             ELSE IF subscriptionInactive(CHOOSE s \in subscription : TRUE)
             THEN jobFailed(@)
             ELSE [@ EXCEPT !.pc = "create",
                            !.subscription = CHOOSE s \in subscription : TRUE]]
    /\ UNCHANGED <<events, req, subs, logs, posts, adm, receiver,
                   MAX_RETRY_ATTEMPTS, proc>>

\* prisma.deliveryLog.create inserts a row: it never replaces one.
deliveryLogCreate_upsert(lg, row) ==
    {l \in lg : \/ l.event_id # row.event_id
                \/ l.subscription_id # row.subscription_id} \cup {row}

deliveryLogCreate(lg, row) == lg \cup {row}

\* The writes to the DeliveryLog table that the store has refused: each has
\* left a row finished with the store's error, a row still pending that no
\* running attempt holds, or a job whose create was refused.  The model
\* lets the store refuse at most MaxStoreFailures writes.
MaxStoreFailures == 1

StoreFailures(lg, js) ==
    Cardinality({l \in lg : l.error_message = Some("store error")})
        + Cardinality({l \in lg : l.status = "pending" /\ js[l.job].logId # l.id})
        + Cardinality({j \in DOMAIN js : js[j].createRefused})

\* prisma.deliveryLog.create has thrown: the create stands outside the inner
\* try, so the outer catch logs the error and rethrows it.
createError_swallowed(j, job) ==
    [job EXCEPT !.pc = "post", !.logId = LogId(j, job),
                !.createRefused = TRUE]

createError(j, job) == [jobFailed(job) EXCEPT !.createRefused = TRUE]

\* await prisma.deliveryLog.create: it inserts the row, or it throws.
processWebhookDelivery_create(j) ==
    /\ j \in JobIds
    /\ jobs[j].state = "active"
    /\ jobs[j].pc = "create"
    /\ \/ /\ logs' = deliveryLogCreate(logs, PendingLog(j, jobs[j]))
          /\ jobs' = [jobs EXCEPT ![j].pc = "post",
                                  ![j].logId = LogId(j, jobs[j])]
       \/ /\ StoreFailures(logs, jobs) < MaxStoreFailures
          /\ logs' = logs
          /\ jobs' = [jobs EXCEPT ![j] = createError(j, @)]
    /\ UNCHANGED <<events, req, subs, posts, adm, receiver,
                   MAX_RETRY_ATTEMPTS, proc>>

\* JSON.stringify: the text of a value, a text of its own for every value.
JsonStringify(value) == <<"json", value>>

\* The body of the webhook: JSON.stringify({ id, eventType, payload,
\* receivedAt, idempotencyKey }) of the event.
WebhookBody(event) ==
    JsonStringify([id |-> event.id, eventType |-> event.event_type,
                   payload |-> event.payload,
                   idempotencyKey |-> event.idempotency_key])

\* SecurityUtils.generateHmacSignature:
\* crypto.createHmac('sha256', secret).update(payload).digest('hex'), a
\* digest of its own for every pair of a secret and a text.
generateHmacSignature_keyless(payload, secret) ==
    <<"hmac-sha256-hex", 0, payload>>

generateHmacSignature(payload, secret) ==
    <<"hmac-sha256-hex", secret, payload>>

\* SecurityUtils.generateWebhookSignature: `sha256=${signature}`
generateWebhookSignature(payload, secret) ==
    <<"sha256=", generateHmacSignature(payload, secret)>>

\* SecurityUtils.generateWebhookHeaders, without the clock reading of
\* X-AlgoHire-Timestamp.
generateWebhookHeaders(payload, secret, eventType, eventId) ==
    [signature |-> generateWebhookSignature(payload, secret),
     eventType |-> eventType, eventId |-> eventId]

\* await axios.post(subscription.target_url, payload, { headers, timeout }):
\* the request goes to the URL, and is signed with the secret, of the
\* subscription as the job loaded it.
processWebhookDelivery_post(j, response) ==
    /\ j \in JobIds
    /\ jobs[j].state = "active"
    /\ jobs[j].pc = "post"
    /\ posts' = posts \cup
          {[event_id |-> jobs[j].eventId,
            subscription_id |-> jobs[j].subscriptionId,
            target_url |-> jobs[j].subscription.target_url,
            secret_key |-> jobs[j].subscription.secret_key,
            body |-> WebhookBody(event),
            headers |-> generateWebhookHeaders(
                            WebhookBody(event),
                            jobs[j].subscription.secret_key,
                            event.event_type, event.id),
            log_id |-> jobs[j].logId, job |-> j] :
           event \in {e \in events : e.id = jobs[j].eventId}}
    /\ jobs' = [jobs EXCEPT ![j].pc = "update", ![j].response = response]
    /\ UNCHANGED <<events, req, subs, logs, adm, receiver,
                   MAX_RETRY_ATTEMPTS, proc>>

\* await prisma.deliveryLog.update: with the success data, and the handler
\* returns; or, in catch (deliveryError), with the failure data, and the
\* handler rethrows.  When the update of the success branch throws, the
\* catch block takes the store's error for the delivery error; the update of
\* the catch block is not guarded.
processWebhookDelivery_update(j) ==
    /\ j \in JobIds
    /\ jobs[j].state = "active"
    /\ jobs[j].pc = "update"
    /\ LET response == jobs[j].response
           ok == response.kind = "response" /\ validateStatus(response.status)
           rows == UpdateTargets(logs, jobs[j].logId)
       IN  \/ /\ logs' = (logs \ rows) \cup
                     {IF ok THEN SuccessData(row, response)
                      ELSE FailureData(row, response) : row \in rows}
              /\ jobs' = [jobs EXCEPT ![j] =
                     IF ok THEN jobCompleted(@) ELSE jobFailed(@)]
           \/ \* the update of the success branch throws
              /\ ok
              /\ StoreFailures(logs, jobs) < MaxStoreFailures
              /\ logs' = (logs \ rows) \cup
                     {FailureData(row, StoreError) : row \in rows}
              /\ jobs' = [jobs EXCEPT ![j] = jobFailed(@)]
           \/ \* the update of the catch block throws: nothing is written,
              \* and the store's error leaves the handler
              /\ StoreFailures(logs, jobs) < MaxStoreFailures
              /\ logs' = logs
              /\ jobs' = [jobs EXCEPT ![j] = jobFailed(@)]
    /\ UNCHANGED <<events, req, subs, posts, adm, receiver,
                   MAX_RETRY_ATTEMPTS, proc>>

(***************************************************************************)
(* AdminController: subscriptions and the manual retry.                    *)
(***************************************************************************)
NumAdminRequests == 2

AdminRequests == 1..NumAdminRequests

\* A URL as new URL(url) parses it; protocol "" when it does not parse.
\* NoUrl is the missing or empty targetUrl.
NoUrl == [protocol |-> "", host |-> ""]

\* SecurityUtils.isValidWebhookUrl
isValidWebhookUrl(url) == url.protocol \in {"https:", "http:"}

\* No secret_key in a response.
NoSecret == 0

IdleAdmin ==
    [op |-> "", pc |-> "idle", eventType |-> JsUndefined, targetUrl |-> NoUrl,
     logId |-> NoLog, eventId |-> 0, subscriptionId |-> 0,
     status |-> 0, code |-> "", secretKey |-> NoSecret, refused |-> FALSE,
     counts |-> <<>>, stats |-> <<>>]

\* @default(uuid()): an id no subscription has had.  The model names a
\* subscription after the request that creates it.
NewSubscriptionId(a) == a

\* SecurityUtils.generateSecretKey: 32 random bytes, a value of its own for
\* every call.
generateSecretKey(a) == a

\* The store's rule for subscriptions: at most one active row for an
\* (event_type, target_url) pair, applied to the row an insert or an update
\* would leave.
DuplicateSubscription(sbs, row) ==
    /\ row.is_active
    /\ \E s \in sbs :
           /\ s.id # row.id
           /\ s.is_active
           /\ s.event_type = row.event_type
           /\ s.target_url = row.target_url

\* The response of the catch block of createSubscription.
createSubscriptionCatch == [status |-> 500, code |-> "INTERNAL_ERROR"]

\* The response of the catch block of updateSubscription.
updateSubscriptionCatch(message) ==
    IF message = "Record to update not found"
    THEN [status |-> 404, code |-> "SUBSCRIPTION_NOT_FOUND"]
    ELSE [status |-> 500, code |-> "INTERNAL_ERROR"]

\* The response of the catch block of deleteSubscription.
deleteSubscriptionCatch(message) ==
    IF message = "Record to delete does not exist"
    THEN [status |-> 404, code |-> "SUBSCRIPTION_NOT_FOUND"]
    ELSE [status |-> 500, code |-> "INTERNAL_ERROR"]

\* The head of createSubscription: the two checks of the input.
createSubscription_receive(a, eventType, targetUrl) ==
    /\ adm[a].pc = "idle"
    /\ LET arrived == [adm[a] EXCEPT !.op = "createSubscription",
                                     !.eventType = eventType,
                                     !.targetUrl = targetUrl]
       IN  adm' = [adm EXCEPT ![a] =
             IF Falsy(eventType) \/ targetUrl = NoUrl
             THEN [arrived EXCEPT !.pc = "done", !.status = 400,
                                  !.code = "VALIDATION_ERROR"]
             ELSE IF ~isValidWebhookUrl(targetUrl)
             THEN [arrived EXCEPT !.pc = "done", !.status = 400,
                                  !.code = "INVALID_URL"]
             ELSE [arrived EXCEPT !.pc = "findFirst"]]
    /\ UNCHANGED <<events, req, jobs, subs, logs, posts, receiver,
                   MAX_RETRY_ATTEMPTS, proc>>

\* await prisma.subscription.findFirst({ where: { event_type, target_url,
\* is_active: true } }), and the 409 when it finds a row.
createSubscription_findFirst(a) ==
    /\ adm[a].op = "createSubscription"
    /\ adm[a].pc = "findFirst"
    /\ LET existingSubscription ==
               {s \in subs : /\ s.event_type = adm[a].eventType.s
                             /\ s.target_url = adm[a].targetUrl
                             /\ s.is_active}
       IN  adm' = [adm EXCEPT ![a] =
             IF existingSubscription # {}
             THEN [@ EXCEPT !.pc = "done", !.status = 409,
                            !.code = "DUPLICATE_SUBSCRIPTION"]
             ELSE [@ EXCEPT !.pc = "create"]]
    /\ UNCHANGED <<events, req, jobs, subs, logs, posts, receiver,
                   MAX_RETRY_ATTEMPTS, proc>>

\* What a response body discloses of a secret_key: the value of its
\* secretKey field, NoSecret when it has none.
SecretKeyIn(body) ==
    IF "secretKey" \in DOMAIN body THEN body.secretKey ELSE NoSecret

\* The subscription of the 201 of createSubscription.
createSubscriptionBody(subscription) ==
    [id |-> subscription.id, eventType |-> subscription.event_type,
     targetUrl |-> subscription.target_url,
     isActive |-> subscription.is_active,
     secretKey |-> subscription.secret_key]

\* The subscription of the 200 of updateSubscription.
updateSubscriptionBody_withSecret(subscription) ==
    [id |-> subscription.id, eventType |-> subscription.event_type,
     targetUrl |-> subscription.target_url,
     isActive |-> subscription.is_active,
     secretKey |-> subscription.secret_key]

updateSubscriptionBody(subscription) ==
    [id |-> subscription.id, eventType |-> subscription.event_type,
     targetUrl |-> subscription.target_url,
     isActive |-> subscription.is_active]

\* The 200 of retryFailedDelivery.
retryFailedDeliveryBody(logId, eventId, subscriptionId) ==
    [logId |-> logId, eventId |-> eventId, subscriptionId |-> subscriptionId]

\* await prisma.subscription.create, and the 201 that carries the secret.
createSubscription_create(a) ==
    /\ adm[a].op = "createSubscription"
    /\ adm[a].pc = "create"
    /\ LET id == NewSubscriptionId(a)
           secretKey == generateSecretKey(a)
           row == [id |-> id, event_type |-> adm[a].eventType.s,
                   target_url |-> adm[a].targetUrl, secret_key |-> secretKey,
                   is_active |-> TRUE]
       IN  IF DuplicateSubscription(subs, row)
           THEN /\ adm' = [adm EXCEPT ![a] =
                     [@ EXCEPT !.pc = "done", !.refused = TRUE,
                               !.status = createSubscriptionCatch.status,
                               !.code = createSubscriptionCatch.code]]
                /\ UNCHANGED subs
           ELSE /\ subs' = subs \cup {row}
                /\ adm' = [adm EXCEPT ![a] =
                      [@ EXCEPT !.pc = "done", !.status = 201,
                                !.subscriptionId = id,
                                !.secretKey =
                                    SecretKeyIn(createSubscriptionBody(row))]]
    /\ UNCHANGED <<events, req, jobs, logs, posts, receiver,
                   MAX_RETRY_ATTEMPTS, proc>>

\* updateSubscription: the row after prisma.subscription.update with the
\* fields of the body that are not undefined.
UpdatedSubscription(row, eventType, targetUrl, isActive) ==
    [row EXCEPT
        !.event_type = IF eventType.t = "undefined" THEN @ ELSE eventType.s,
        !.target_url = IF targetUrl = NoUrl THEN @ ELSE targetUrl,
        !.is_active = IF isActive = "undefined" THEN @ ELSE isActive = "true"]

\* updateSubscription has one await, the update itself: an invalid
\* targetUrl answers 400 before it, a missing row makes it throw (404).
updateSubscription(a, subscriptionId, eventType, targetUrl, isActive) ==
    /\ adm[a].pc = "idle"
    /\ LET arrived == [adm[a] EXCEPT !.op = "updateSubscription",
                                     !.pc = "done",
                                     !.subscriptionId = subscriptionId]
           row == {s \in subs : s.id = subscriptionId}
       IN  IF targetUrl # NoUrl /\ ~isValidWebhookUrl(targetUrl)
           THEN /\ adm' = [adm EXCEPT ![a] =
                     [arrived EXCEPT !.status = 400, !.code = "INVALID_URL"]]
                /\ UNCHANGED subs
           ELSE IF row = {}
           THEN /\ adm' = [adm EXCEPT ![a] =
                     [arrived EXCEPT
                        !.status = updateSubscriptionCatch(
                                       "Record to update not found").status,
                        !.code = updateSubscriptionCatch(
                                     "Record to update not found").code]]
                /\ UNCHANGED subs
           ELSE LET updated == UpdatedSubscription(CHOOSE s \in row : TRUE,
                                                   eventType, targetUrl, isActive)
                IN  IF DuplicateSubscription(subs, updated)
                    THEN /\ adm' = [adm EXCEPT ![a] =
                              [arrived EXCEPT
                                 !.refused = TRUE,
                                 !.status = updateSubscriptionCatch(
                                                "Unique constraint").status,
                                 !.code = updateSubscriptionCatch(
                                              "Unique constraint").code]]
                         /\ UNCHANGED subs
                    ELSE /\ adm' = [adm EXCEPT ![a] =
                              [arrived EXCEPT
                                 !.status = 200,
                                 !.secretKey =
                                     SecretKeyIn(updateSubscriptionBody(updated))]]
                         /\ subs' = (subs \ row) \cup {updated}
    /\ UNCHANGED <<events, req, jobs, logs, posts, receiver,
                   MAX_RETRY_ATTEMPTS, proc>>

\* The store's rule for the DeliveryLog rows of a subscription that is
\* deleted: the delete is a hard delete of the Subscription row, and the
\* rows written for it stay as they are.
logsAfterSubscriptionDelete_cascade(lg, subscriptionId) ==
    {l \in lg : l.subscription_id # subscriptionId}

logsAfterSubscriptionDelete(lg, subscriptionId) == lg

\* deleteSubscription has one await, the delete itself: a missing row makes
\* it throw (404).
deleteSubscription(a, subscriptionId) ==
    /\ adm[a].pc = "idle"
    /\ LET arrived == [adm[a] EXCEPT !.op = "deleteSubscription",
                                     !.pc = "done",
                                     !.subscriptionId = subscriptionId]
           row == {s \in subs : s.id = subscriptionId}
       IN  IF row = {}
           THEN /\ adm' = [adm EXCEPT ![a] =
                     [arrived EXCEPT
                        !.status = deleteSubscriptionCatch(
                                       "Record to delete does not exist").status,
                        !.code = deleteSubscriptionCatch(
                                     "Record to delete does not exist").code]]
                /\ UNCHANGED <<subs, logs>>
           ELSE /\ adm' = [adm EXCEPT ![a] = [arrived EXCEPT !.status = 200]]
                /\ subs' = subs \ row
                /\ logs' = logsAfterSubscriptionDelete(logs, subscriptionId)
    /\ UNCHANGED <<events, req, jobs, posts, receiver, MAX_RETRY_ATTEMPTS, proc>>

(***************************************************************************)
(* AdminController.getDeliveryLogs: the rows that match the filters of the *)
(* query, each with the event and the subscription it includes.  A filter  *)
(* the query does not name is NoFilter; an included row that is missing is *)
(* the empty set.  The handler reads the store and writes nothing.         *)
(***************************************************************************)
NoFilter == 0

NoStatusFilter == ""

DeliveryLogsWhere(l, where) ==
    /\ where.eventId # NoFilter => l.event_id = where.eventId
    /\ where.subscriptionId # NoFilter
          => l.subscription_id = where.subscriptionId
    /\ where.status # NoStatusFilter => l.status = where.status

DeliveryLogItem(l, evs, sbs) ==
    [id |-> l.id, status |-> l.status, attemptCount |-> l.attempt_count,
     responseStatusCode |-> l.response_status_code,
     responseBody |-> l.response_body, errorMessage |-> l.error_message,
     event |-> {[id |-> e.id, event_type |-> e.event_type] :
                   e \in {x \in evs : x.id = l.event_id}},
     subscription |-> {[id |-> t.id, event_type |-> t.event_type,
                        target_url |-> t.target_url,
                        is_active |-> t.is_active] :
                   t \in {x \in sbs : x.id = l.subscription_id}}]

getDeliveryLogs(lg, evs, sbs, where) ==
    {DeliveryLogItem(l, evs, sbs) : l \in {x \in lg : DeliveryLogsWhere(x, where)}}

(***************************************************************************)
(* The other endpoints that read the store: AdminController.getSubscriptions, *)
(* EventController.getEventById and AdminController.getSystemStats.        *)
(***************************************************************************)
\* where.event_type and where.is_active of getSubscriptions; isActive is the
\* text of the query, "" when the query leaves it out.
SubscriptionsWhere(t, where) ==
    /\ where.eventType # <<>> => t.event_type = where.eventType
    /\ where.isActive # "" => t.is_active = (where.isActive = "true")

getSubscriptions(sbs, lg, where) ==
    {[id |-> t.id, eventType |-> t.event_type, targetUrl |-> t.target_url,
      isActive |-> t.is_active,
      deliveryCount |-> Cardinality({l \in lg : l.subscription_id = t.id})] :
        t \in {x \in sbs : SubscriptionsWhere(x, where)}}

\* The event with its delivery logs, each with the selected columns of its
\* subscription; the empty set when the event is missing (404).
getEventById(evs, lg, sbs, eventId) ==
    {[id |-> e.id, eventType |-> e.event_type,
      idempotencyKey |-> e.idempotency_key, payload |-> e.payload,
      deliveryLogs |->
          {[id |-> l.id, event_id |-> l.event_id,
            subscription_id |-> l.subscription_id, status |-> l.status,
            attempt_count |-> l.attempt_count,
            response_status_code |-> l.response_status_code,
            response_body |-> l.response_body,
            error_message |-> l.error_message,
            subscription |->
                {[id |-> t.id, event_type |-> t.event_type,
                  target_url |-> t.target_url, is_active |-> t.is_active] :
                    t \in {x \in sbs : x.id = l.subscription_id}}] :
              l \in {x \in lg : x.event_id = e.id}}] :
        e \in {x \in evs : x.id = eventId}}

\* The seven counts of getSystemStats, each a query of its own.
CountQueries ==
    {"event.count", "subscription.count", "subscription.count.active",
     "deliveryLog.count", "deliveryLog.count.success",
     "deliveryLog.count.failed", "deliveryLog.count.pending"}

\* prisma.<table>.count({ where }) on the store as it is when the query runs
CountOf(q, evs, sbs, lg) ==
    CASE q = "event.count" -> Cardinality(evs)
      [] q = "subscription.count" -> Cardinality(sbs)
      [] q = "subscription.count.active" ->
             Cardinality({t \in sbs : t.is_active})
      [] q = "deliveryLog.count" -> Cardinality(lg)
      [] q = "deliveryLog.count.success" ->
             Cardinality({l \in lg : l.status = "success"})
      [] q = "deliveryLog.count.failed" ->
             Cardinality({l \in lg : l.status = "failed"})
      [] q = "deliveryLog.count.pending" ->
             Cardinality({l \in lg : l.status = "pending"})

\* res.status(200).json({ success: true, stats: { ... } }) of getSystemStats:
\* the stats, from the results of the seven counts.
SystemStatsBody(c) ==
    [events |-> [total |-> c["event.count"]],
     subscriptions |->
         [total |-> c["subscription.count"],
          active |-> c["subscription.count.active"],
          inactive |-> c["subscription.count"]
                          - c["subscription.count.active"]],
     deliveries |->
         [total |-> c["deliveryLog.count"],
          successful |-> c["deliveryLog.count.success"],
          failed |-> c["deliveryLog.count.failed"],
          pending |-> c["deliveryLog.count.pending"]],
     queue |-> [pending |-> 0, processing |-> 0]]

\* The stats when no write of the store falls between the seven counts.
getSystemStats(evs, sbs, lg) ==
    SystemStatsBody([q \in CountQueries |-> CountOf(q, evs, sbs, lg)])

\* getSystemStats: the request arrives, and Promise.all starts the counts.
getSystemStats_receive(a) ==
    /\ adm[a].pc = "idle"
    /\ adm' = [adm EXCEPT ![a] =
          [@ EXCEPT !.op = "getSystemStats", !.pc = "count"]]
    /\ UNCHANGED <<events, req, jobs, subs, logs, posts, receiver,
                   MAX_RETRY_ATTEMPTS, proc>>

\* One of the seven counts runs on the store; the counts run in any order,
\* and writes of other handlers fall between them.
getSystemStats_count(a, q) ==
    /\ adm[a].op = "getSystemStats"
    /\ adm[a].pc = "count"
    /\ q \in CountQueries \ DOMAIN adm[a].counts
    /\ adm' = [adm EXCEPT ![a].counts =
          [x \in DOMAIN @ \cup {q} |->
              IF x = q THEN CountOf(q, events, subs, logs) ELSE @[x]]]
    /\ UNCHANGED <<events, req, jobs, subs, logs, posts, receiver,
                   MAX_RETRY_ATTEMPTS, proc>>

\* await Promise.all has the seven results: the handler answers 200.
getSystemStats_respond(a) ==
    /\ adm[a].op = "getSystemStats"
    /\ adm[a].pc = "count"
    /\ DOMAIN adm[a].counts = CountQueries
    /\ adm' = [adm EXCEPT ![a] =
          [@ EXCEPT !.pc = "done", !.status = 200,
                    !.stats = SystemStatsBody(adm[a].counts)]]
    /\ UNCHANGED <<events, req, jobs, subs, logs, posts, receiver,
                   MAX_RETRY_ATTEMPTS, proc>>

getSystemStatsRequest(a) ==
    \/ getSystemStats_receive(a)
    \/ \E q \in CountQueries : getSystemStats_count(a, q)
    \/ getSystemStats_respond(a)

\* retryFailedDelivery: the request arrives with the id of a log.
retryFailedDelivery_receive(a, logId) ==
    /\ adm[a].pc = "idle"
    /\ adm' = [adm EXCEPT ![a] =
          [@ EXCEPT !.op = "retryFailedDelivery", !.pc = "findUnique",
                    !.logId = logId]]
    /\ UNCHANGED <<events, req, jobs, subs, logs, posts, receiver,
                   MAX_RETRY_ATTEMPTS, proc>>

\* if (deliveryLog.status === 'success')
deliveryLogSucceeded_never(deliveryLog) == FALSE

deliveryLogSucceeded(deliveryLog) == deliveryLog.status = "success"

\* await prisma.deliveryLog.findUnique({ include: { event, subscription } })
\* and the three checks that follow it.
retryFailedDelivery_findUnique(a) ==
    /\ adm[a].op = "retryFailedDelivery"
    /\ adm[a].pc = "findUnique"
    /\ adm' = [adm EXCEPT ![a] =
          IF \A l \in logs : l.id # adm[a].logId
          THEN [@ EXCEPT !.pc = "done", !.status = 404,
                         !.code = "LOG_NOT_FOUND"]
          ELSE LET deliveryLog == CHOOSE l \in logs : l.id = adm[a].logId
                   subscription == {s \in subs :
                                       s.id = deliveryLog.subscription_id}
               IN  IF deliveryLogSucceeded(deliveryLog)
                   THEN [@ EXCEPT !.pc = "done", !.status = 400,
                                  !.code = "INVALID_RETRY"]
                   ELSE IF subscription = {}
                   THEN \* deliveryLog.subscription is null: a TypeError
                        [@ EXCEPT !.pc = "done", !.status = 500,
                                  !.code = "INTERNAL_ERROR"]
                   ELSE IF ~(CHOOSE s \in subscription : TRUE).is_active
                   THEN [@ EXCEPT !.pc = "done", !.status = 400,
                                  !.code = "INACTIVE_SUBSCRIPTION"]
                   ELSE [@ EXCEPT !.pc = "queue",
                                  !.eventId = deliveryLog.event_id,
                                  !.subscriptionId = deliveryLog.subscription_id]]
    /\ UNCHANGED <<events, req, jobs, subs, logs, posts, receiver,
                   MAX_RETRY_ATTEMPTS, proc>>

\* await WebhookService.queueWebhookDelivery, then the 200; the catch block
\* answers 500 when the add throws.
retryFailedDelivery_queue(a) ==
    /\ adm[a].op = "retryFailedDelivery"
    /\ adm[a].pc = "queue"
    /\ \/ /\ jobs' = queueWebhookDelivery(jobs, adm[a].eventId,
                                          adm[a].subscriptionId,
                                          MAX_RETRY_ATTEMPTS,
                                          JobId("retry", a, 0))
          /\ adm' = [adm EXCEPT ![a] =
                [@ EXCEPT !.pc = "done", !.status = 200,
                          !.secretKey = SecretKeyIn(retryFailedDeliveryBody(
                              adm[a].logId, adm[a].eventId,
                              adm[a].subscriptionId))]]
       \/ /\ adm' = [adm EXCEPT ![a] =
                [@ EXCEPT !.pc = "done", !.status = 500,
                          !.code = "INTERNAL_ERROR"]]
          /\ UNCHANGED jobs
    /\ UNCHANGED <<events, req, subs, logs, posts, receiver,
                   MAX_RETRY_ATTEMPTS, proc>>

(***************************************************************************)
(* The inputs of the model.                                                *)
(***************************************************************************)
\* The largest MAX_RETRY_ATTEMPTS the model's environment sets.
MaxRetrySetting == 2

Key1 == JsString(<<"k1">>)

Key2 == JsString(<<"k2">>)

TypeA == JsString(<<"a">>)

TypeZ == JsString(<<"Z">>)

Url1 == [protocol |-> "https:", host |-> "sink1"]

Url2 == [protocol |-> "http:", host |-> "sink2"]

\* The requests POST /events receives while the whole relay runs.
EventHeaders == {Key1}

EventTypes == {TypeA}

EventPayloads == {JsObject(2)}

\* The requests POST /events receives when ingestion is studied alone.
IngestionHeaders == {JsUndefined, Key1, Key2}

IngestionTypes == {TypeA, TypeZ, JsString(<<>>)}

\* The inputs of the validation: every string of at most MaxTypeLen
\* characters, and a value of every other kind.
MaxTypeLen == 2

InputChars == {"a", " ", "!"}

RECURSIVE StringsUpTo(_)
StringsUpTo(n) ==
    IF n = 0 THEN {<<>>}
    ELSE LET shorter == StringsUpTo(n - 1)
         IN  shorter \cup {Append(str, c) : str \in shorter, c \in InputChars}

ValidationHeaders == {JsUndefined, JsString(<<>>), Key1}

ValidationTypes ==
    {JsUndefined, JsNull, JsNumber(0), JsNumber(42), JsObject(2)}
        \cup {JsString(str) : str \in StringsUpTo(MaxTypeLen)}

ValidationPayloads ==
    {JsUndefined, JsNull, JsString(<<"x">>), JsNumber(7), JsArray(2),
     JsObject(2), JsObject(PayloadLimit), JsObject(PayloadLimit + 1),
     JsArray(PayloadLimit + 1)}

\* The bodies POST /subscriptions receives: <<eventType, targetUrl>>.
SubscriptionBodies == {<<TypeA, Url1>>, <<TypeA, Url2>>, <<TypeZ, Url1>>}

\* What the sink answers, or fails to.
SinkResponses == {HttpResponse(200), HttpResponse(500), TransportError}

(***************************************************************************)
(* The relay.                                                              *)
(***************************************************************************)
Init ==
    /\ events = {}
    /\ req = [r \in Requests |-> IdleRequest]
    /\ jobs = <<>>
    /\ subs = {}
    /\ logs = {}
    /\ posts = {}
    /\ adm = [a \in AdminRequests |-> IdleAdmin]
    /\ receiver \in {"WebhookWorker", "Worker"}
    /\ MAX_RETRY_ATTEMPTS \in 1..MaxRetrySetting
    /\ proc = "running"

Ingestion ==
    \E r \in Requests :
        \/ \E header \in EventHeaders, eventType \in EventTypes,
              payload \in EventPayloads :
                processEvent_receive(r, header, eventType, payload)
        \/ processEvent(r)

processWebhookDeliveries(j) ==
    \/ processWebhookDeliveries_findMany(j)
    \/ \E s \in jobs[j].pending : processWebhookDeliveries_add(j, s)
    \/ processWebhookDeliveries_settle(j)

processWebhookDelivery(j) ==
    \/ processWebhookDelivery_findUnique(j)
    \/ processWebhookDelivery_create(j)
    \/ \E response \in SinkResponses : processWebhookDelivery_post(j, response)
    \/ processWebhookDelivery_update(j)

\* What the worker does with one job: it takes it from the queue, and runs
\* the processor to its next await.
WorkerStep(j) ==
    /\ j \in JobIds
    /\ \/ processJob(j)
       \/ processWebhookDeliveries(j)
       \/ processWebhookDelivery(j)

Worker == \E j \in JobIds : WorkerStep(j)

createSubscription(a) ==
    \/ \E body \in SubscriptionBodies :
          createSubscription_receive(a, body[1], body[2])
    \/ createSubscription_findFirst(a)
    \/ createSubscription_create(a)

retryFailedDelivery(a) ==
    \/ \E l \in logs : retryFailedDelivery_receive(a, l.id)
    \/ retryFailedDelivery_findUnique(a)
    \/ retryFailedDelivery_queue(a)

Admin ==
    \E a \in AdminRequests :
        \/ createSubscription(a)
        \/ \E subscriptionId \in {s.id : s \in subs},
              isActive \in {"true", "false"} :
                updateSubscription(a, subscriptionId, JsUndefined, NoUrl,
                                   isActive)
        \/ \E subscriptionId \in {s.id : s \in subs} :
                deleteSubscription(a, subscriptionId)
        \/ retryFailedDelivery(a)

Next == Ingestion \/ Worker \/ Admin

Spec == Init /\ [][Next]_vars

\* The ids a job can have.
AllJobIds ==
    {JobId("request", r, 0) : r \in Requests}
        \cup {JobId("fanout", r, s) : r \in Requests, s \in AdminRequests}
        \cup {JobId("retry", a, 0) : a \in AdminRequests}

\* The relay under fair scheduling: the worker takes a waiting job when it
\* has a free slot, and every await of a running processor returns.
FairSpec == Spec /\ \A j \in AllJobIds : WF_vars(WorkerStep(j))

(***************************************************************************)
(* The relay when its store already holds a subscription: an earlier       *)
(* POST /subscriptions created it, and the admin requests of the model     *)
(* come on top of it.                                                      *)
(***************************************************************************)
SeedSubscription ==
    [id |-> NumAdminRequests + 1, event_type |-> TypeA.s, target_url |-> Url1,
     secret_key |-> NumAdminRequests + 1, is_active |-> TRUE]

InitSubscribed ==
    /\ events = {}
    /\ req = [r \in Requests |-> IdleRequest]
    /\ jobs = <<>>
    /\ subs = {SeedSubscription}
    /\ logs = {}
    /\ posts = {}
    /\ adm = [a \in AdminRequests |-> IdleAdmin]
    /\ receiver \in {"WebhookWorker", "Worker"}
    /\ MAX_RETRY_ATTEMPTS \in 1..MaxRetrySetting
    /\ proc = "running"

\* One producer request, and admin requests on what the store holds.
SubscribedNext ==
    \/ \E header \in EventHeaders, eventType \in EventTypes,
          payload \in EventPayloads :
            processEvent_receive(1, header, eventType, payload)
    \/ processEvent(1)
    \/ Worker
    \/ \E a \in AdminRequests :
          \/ \E subscriptionId \in {s.id : s \in subs},
                isActive \in {"true", "false"} :
                  updateSubscription(a, subscriptionId, JsUndefined, NoUrl,
                                     isActive)
          \/ \E subscriptionId \in {s.id : s \in subs} :
                  deleteSubscription(a, subscriptionId)
          \/ retryFailedDelivery(a)

SpecSubscribed == InitSubscribed /\ [][SubscribedNext]_vars

(***************************************************************************)
(* gracefulShutdown, the handler of SIGTERM and SIGINT: server.close stops *)
(* the listener and calls back when the requests in flight have ended; the *)
(* callback awaits WebhookService.shutdown, which closes the queue and the *)
(* service's Redis connection, and then calls process.exit.  The worker    *)
(* runs beside it until the process exits.                                 *)
(***************************************************************************)
RequestsInFlight ==
    {r \in Requests : req[r].pc \notin {"idle", "done"}}

AdminRequestsInFlight ==
    {a \in AdminRequests : adm[a].pc \notin {"idle", "done"}}

gracefulShutdown_signal ==
    /\ proc = "running"
    /\ proc' = "draining"
    /\ UNCHANGED <<events, req, jobs, subs, logs, posts, adm, receiver,
                   MAX_RETRY_ATTEMPTS>>

gracefulShutdown_close ==
    /\ proc = "draining"
    /\ RequestsInFlight = {}
    /\ AdminRequestsInFlight = {}
    /\ proc' = "closed"
    /\ UNCHANGED <<events, req, jobs, subs, logs, posts, adm, receiver,
                   MAX_RETRY_ATTEMPTS>>

gracefulShutdown_exit ==
    /\ proc = "closed"
    /\ proc' = "exited"
    /\ UNCHANGED <<events, req, jobs, subs, logs, posts, adm, receiver,
                   MAX_RETRY_ATTEMPTS>>

gracefulShutdown ==
    \/ gracefulShutdown_signal
    \/ gracefulShutdown_close
    \/ gracefulShutdown_exit

\* One producer request and the worker, until the process exits.
ShutdownNext ==
    \/ /\ proc = "running"
       /\ \E header \in EventHeaders, eventType \in EventTypes,
             payload \in EventPayloads :
               processEvent_receive(1, header, eventType, payload)
    \/ proc # "exited" /\ processEvent(1)
    \/ proc # "exited" /\ Worker
    \/ gracefulShutdown

SpecShutdown == InitSubscribed /\ [][ShutdownNext]_vars

(***************************************************************************)
(* Producers that repeat a key with another body, beside the worker and    *)
(* the manual retry, on a store that holds a subscription.                 *)
(***************************************************************************)
RepeatedTypes == {TypeA, TypeZ}

RepeatedNext ==
    \/ \E r \in Requests, header \in EventHeaders,
          eventType \in RepeatedTypes, payload \in EventPayloads :
            processEvent_receive(r, header, eventType, payload)
    \/ \E r \in Requests : processEvent(r)
    \/ Worker
    \/ retryFailedDelivery(1)
    \/ \E subscriptionId \in {s.id : s \in subs} :
          \/ updateSubscription(NumAdminRequests, subscriptionId, JsUndefined,
                                NoUrl, "false")
          \/ deleteSubscription(NumAdminRequests, subscriptionId)

SpecRepeated == InitSubscribed /\ [][RepeatedNext]_vars

(***************************************************************************)
(* The stats endpoint beside one producer request and the worker, on a     *)
(* store that holds a subscription.                                        *)
(***************************************************************************)
StatsNext ==
    \/ \E header \in EventHeaders, eventType \in EventTypes,
          payload \in EventPayloads :
            processEvent_receive(1, header, eventType, payload)
    \/ processEvent(1)
    \/ Worker
    \/ getSystemStatsRequest(1)

SpecStats == InitSubscribed /\ [][StatsNext]_vars

(***************************************************************************)
(* Ingestion alone: POST /events requests with two keys, two event types   *)
(* and rejected requests among them.  No other handler writes the Event    *)
(* table, a request, or a fan-out job's payload.                           *)
(***************************************************************************)
IngestionNext ==
    \E r \in Requests :
        \/ \E header \in IngestionHeaders, eventType \in IngestionTypes,
              payload \in EventPayloads :
                processEvent_receive(r, header, eventType, payload)
        \/ processEvent(r)

SpecIngestion == Init /\ [][IngestionNext]_vars

(***************************************************************************)
(* The validation: request 1 carries any header and body of the input      *)
(* sets, while the other requests store an event beside it.                *)
(***************************************************************************)
ValidationNext ==
    \/ \E header \in ValidationHeaders, eventType \in ValidationTypes,
          payload \in ValidationPayloads :
            processEvent_receive(1, header, eventType, payload)
    \/ \E r \in Requests \ {1} : processEvent_receive(r, Key1, TypeA, JsObject(2))
    \/ \E r \in Requests : processEvent(r)

SpecValidation == Init /\ [][ValidationNext]_vars

(***************************************************************************)
(* Properties of ingestion.                                                *)
(***************************************************************************)
\* The fan-out jobs in the queue for the events that carry a key.
FanOutJobsOfKey(key) ==
    {j \in JobIds :
        /\ jobs[j].type = "process-webhook-deliveries"
        /\ \E e \in EventsWithKey(events, key) : e.id = jobs[j].eventId}

\* The requests that inserted the Event row of a key.
InsertersOfKey(key) ==
    {r \in Requests : req[r].inserted /\ req[r].header.s = key}

\* C1: the store holds at most one Event row for any idempotency key,
\* whatever the interleaving of the requests that carry it.
C1_OneEventPerKey ==
    \A e1 \in events, e2 \in events :
        e1.idempotency_key = e2.idempotency_key => e1 = e2

\* Two requests with one key both found no row; one inserted, the other's
\* insert was refused.
C1_Witness ==
    \E r1 \in Requests, r2 \in Requests :
        /\ r1 # r2
        /\ req[r1].header = req[r2].header
        /\ req[r1].inserted
        /\ req[r2].lostInsert
        /\ Cardinality(EventsWithKey(events, req[r1].header.s)) = 1

\* C2: once a POST with key k has completed with 202, every later valid
\* POST with k completes with 202 and the same event id, inserts no row and
\* enqueues no fan-out job.
C2_DuplicateReturnsSameEvent ==
    \A r \in Requests :
        (/\ req[r].pc # "idle"
         /\ req[r].prior # {}
         /\ validateEventRequest(req[r].eventType, req[r].payload) = "") =>
            /\ req[r].pc \in {"findUnique", "done"}
            /\ ~req[r].inserted
            /\ ~req[r].enqueued
            /\ ~req[r].queueFailed
            /\ req[r].pc = "done" =>
                   /\ req[r].status = 202
                   /\ req[r].eventId \in req[r].prior
                   /\ Cardinality(req[r].prior) = 1
                   /\ JobId("request", r, 0) \notin JobIds

\* A request that arrived after a 202 for its key has completed, beside the
\* one row and the one job of the first request.
C2_Witness ==
    \E r \in Requests :
        /\ req[r].pc = "done"
        /\ req[r].prior # {}
        /\ req[r].status = 202
        /\ Cardinality(events) = 1
        /\ Cardinality(JobIds) = 1

\* C3 as stated: the request whose insert loses the race for a key answers
\* 202 with the id of the winner's event.
C3_LoserAnswers202 ==
    \A r \in Requests :
        req[r].lostInsert =>
            /\ req[r].status = 202
            /\ \E e \in EventsWithKey(events, req[r].header.s) :
                   req[r].eventId = e.id

\* C3: of the requests that race for a key exactly one inserts; a request
\* whose insert is refused answers 409 DUPLICATE_IDEMPOTENCY_KEY without an
\* event id, and inserts and enqueues nothing.
C3_LoserAnswers409 ==
    \A r \in Requests :
        req[r].lostInsert =>
            /\ req[r].pc = "done"
            /\ req[r].status = 409
            /\ req[r].code = "DUPLICATE_IDEMPOTENCY_KEY"
            /\ req[r].eventId = 0
            /\ ~req[r].inserted
            /\ ~req[r].enqueued
            /\ JobId("request", r, 0) \notin JobIds
            /\ Cardinality(InsertersOfKey(req[r].header.s)) = 1
            /\ Cardinality(EventsWithKey(events, req[r].header.s)) = 1

\* The loser of a race has answered, and the winner has answered 202.
C3_Witness ==
    \E r1 \in Requests, r2 \in Requests :
        /\ req[r2].lostInsert
        /\ req[r2].pc = "done"
        /\ req[r1].header = req[r2].header
        /\ req[r1].inserted
        /\ req[r1].pc = "done"
        /\ req[r1].status = 202

\* C4: the queue holds at most one fan-out job for the event of a key; the
\* request that inserted the row enqueued it, and it is there once that
\* request has answered, unless the queue refused it.
C4_OneFanOutPerEvent ==
    \A key \in {Key1.s, Key2.s} :
        /\ Cardinality(FanOutJobsOfKey(key)) <= 1
        /\ \A j \in FanOutJobsOfKey(key) :
               \E r \in InsertersOfKey(key) :
                   /\ j = JobId("request", r, 0)
                   /\ jobs[j].eventId = req[r].eventId
                   /\ req[r].enqueued
        /\ \A r \in InsertersOfKey(key) :
               (req[r].pc = "done" /\ ~req[r].queueFailed) =>
                   FanOutJobsOfKey(key) = {JobId("request", r, 0)}

\* Every request of the bound carried one key and has answered; one job.
C4_Witness ==
    \E key \in {Key1.s, Key2.s} :
        /\ \A r \in Requests :
               req[r].pc = "done" /\ req[r].header.s = key /\ req[r].status # 400
        /\ Cardinality(FanOutJobsOfKey(key)) = 1
        /\ \E r \in Requests : req[r].lostInsert \/ req[r].prior # {}

\* C6: when the enqueue fails after the insert, the request still answers
\* 202 with the id of the row it inserted, and the row is in the store.
C6_EnqueueFailureStill202 ==
    \A r \in Requests :
        req[r].queueFailed =>
            /\ req[r].pc = "done"
            /\ req[r].inserted
            /\ req[r].status = 202
            /\ req[r].code = ""
            /\ \E e \in events :
                   /\ e.id = req[r].eventId
                   /\ e.idempotency_key = req[r].header.s
            /\ JobId("request", r, 0) \notin JobIds

\* An enqueue has failed and a later request for the key found the row.
C6_Witness ==
    \E r1 \in Requests, r2 \in Requests :
        /\ req[r1].queueFailed
        /\ req[r2].pc = "done"
        /\ req[r2].prior = {req[r1].eventId}
        /\ req[r2].eventId = req[r1].eventId

(***************************************************************************)
(* Properties of the validation.                                           *)
(***************************************************************************)
\* The header is absent or empty.
HeaderMissing(header) == header.t # "string" \/ header.s = <<>>

\* eventType is absent, empty, or no text of the characters the pattern
\* allows.
EventTypeViolates(eventType) ==
    \/ eventType.t # "string"
    \/ eventType.s = <<>>
    \/ \E i \in 1..Len(eventType.s) : eventType.s[i] \notin EventTypeChars

\* payload is absent, or its typeof is not 'object'.
PayloadViolates(payload) ==
    \/ payload.t \in {"undefined", "null"}
    \/ payload.t \notin {"object", "array"}

Terminal(j) == jobs[j].state \in {"completed", "failed"}

DeliveryJobs == {j \in JobIds : jobs[j].type = "deliver-webhook"}

\* The DeliveryLog rows and the POSTs of an (event, subscription) pair.
LogsOfPair(eventId, s) ==
    {l \in logs : l.event_id = eventId /\ l.subscription_id = s}

PostsOfPair(eventId, s) ==
    {p \in posts : p.event_id = eventId /\ p.subscription_id = s}

\* The DeliveryLog rows and the POSTs of the executions of a job.
RowsOf(lg, j) == {l \in lg : l.job = j}

PostsOf(ps, j) == {p \in ps : p.job = j}

\* The request was accepted: it inserted the event, enqueued the fan-out
\* job and answered 202.
Accepted(r) ==
    /\ req[r].pc = "done"
    /\ req[r].status = 202
    /\ req[r].inserted
    /\ req[r].enqueued

\* An enqueue of a delivery job failed in the fan-out of the request's event.
FanOutAddFailed(r) ==
    /\ JobId("request", r, 0) \in JobIds
    /\ jobs[JobId("request", r, 0)].addFailed

\* C5: an event that a request has reported with 202 has its row in the
\* store, then and in every later state.
C5_AcceptedEventKept ==
    \A r \in Requests :
        (req[r].pc = "done" /\ req[r].status = 202) =>
            \E e \in events :
                /\ e.id = req[r].eventId
                /\ e.idempotency_key = req[r].header.s

\* A request was answered 202 though its enqueue failed, a second request
\* was answered 202 for the same event, and an admin request has completed.
C5_Witness ==
    \E r1 \in Requests, r2 \in Requests :
        /\ r1 # r2
        /\ req[r1].pc = "done" /\ req[r1].status = 202 /\ req[r1].queueFailed
        /\ req[r2].pc = "done" /\ req[r2].status = 202
        /\ req[r2].eventId = req[r1].eventId
        /\ \E a \in AdminRequests : adm[a].pc = "done"

\* The happy path of an accepted event and a subscription: no admin request
\* updates a subscription or retries a delivery, every enqueue of the
\* fan-out succeeded, the sink has not failed a call, and the jobs of the
\* event have ended.
HappyPath(r, s) ==
    /\ Accepted(r)
    /\ s \in req[r].subscribers
    /\ \A a \in AdminRequests : adm[a].op \in {"", "createSubscription"}
    /\ ~FanOutAddFailed(r)
    /\ jobs[JobId("request", r, 0)].pending = {}
    /\ Terminal(JobId("request", r, 0))
    /\ \A j \in DeliveryJobs : jobs[j].eventId = req[r].eventId => Terminal(j)
    /\ \A l \in LogsOfPair(req[r].eventId, s) : l.status # "failed"

\* C8: on the happy path, for an accepted event and a subscription active
\* for its event type, exactly one POST has been sent and exactly one
\* DeliveryLog row exists for the pair, with status success and
\* attempt_count 1.
C8_HappyPathOneDelivery ==
    \A r \in Requests, s \in AdminRequests :
        HappyPath(r, s) =>
            /\ Cardinality(PostsOfPair(req[r].eventId, s)) = 1
            /\ Cardinality(LogsOfPair(req[r].eventId, s)) = 1
            /\ \A l \in LogsOfPair(req[r].eventId, s) :
                   l.status = "success" /\ l.attempt_count = 1

\* The subscription is still as it was when the event was accepted.
StillSubscribed(r, s) ==
    \E t \in subs :
        t.id = s /\ t.is_active /\ t.event_type = req[r].eventType.s

\* C9: under fair scheduling, an accepted event and a subscription active
\* for its event type lead to a DeliveryLog row of the pair in a terminal
\* state, unless the subscription stops being active or an enqueue of the
\* fan-out fails.
C9_AtLeastOnceDelivery ==
    \A r \in Requests, s \in AdminRequests :
        (Accepted(r) /\ s \in req[r].subscribers)
            ~> \/ \E l \in LogsOfPair(req[r].eventId, s) :
                      l.status \in {"success", "failed"}
               \/ ~StillSubscribed(r, s)
               \/ FanOutAddFailed(r)

\* The sink was called in every attempt of the job, and the job has failed
\* for good.
EveryAttemptFailedAtSink(j) ==
    /\ jobs[j].state = "failed"
    /\ Cardinality(PostsOf(posts, j)) = jobs[j].attemptsMade

C10_Attempts ==
    \A j \in DeliveryJobs :
        /\ jobs[j].attempts = MAX_RETRY_ATTEMPTS
        /\ jobs[j].attemptsMade <= MAX_RETRY_ATTEMPTS
        /\ Cardinality(RowsOf(logs, j)) <= MAX_RETRY_ATTEMPTS
        /\ jobs[j].state = "failed" => jobs[j].attemptsMade = MAX_RETRY_ATTEMPTS
        /\ EveryAttemptFailedAtSink(j) =>
               /\ Cardinality(RowsOf(logs, j)) = MAX_RETRY_ATTEMPTS
               /\ {l.attempt : l \in RowsOf(logs, j)} = 1..MAX_RETRY_ATTEMPTS
               /\ \A l \in RowsOf(logs, j) : l.status = "failed"

C10_NoFurtherAttempt ==
    \A j \in DeliveryJobs :
        jobs[j].state = "failed" =>
            /\ jobs'[j] = jobs[j]
            /\ RowsOf(logs', j) = RowsOf(logs, j)
            /\ PostsOf(posts', j) = PostsOf(posts, j)

\* C10: a delivery job is enqueued with MAX_RETRY_ATTEMPTS attempts; when
\* every attempt fails at the sink, the job has made exactly
\* MAX_RETRY_ATTEMPTS attempts, each has left one failed DeliveryLog row,
\* and the job is failed for good: no step attempts it again or writes a
\* row for it (with MAX_RETRY_ATTEMPTS = 1, one failure and one failed row).
C10_ExactlyMaxAttempts == []C10_Attempts /\ [][C10_NoFurtherAttempt]_vars

\* A delivery job has failed in each of two attempts and is failed for good.
C10_Witness ==
    \E j \in DeliveryJobs :
        /\ EveryAttemptFailedAtSink(j)
        /\ MAX_RETRY_ATTEMPTS = MaxRetrySetting
        /\ Cardinality(RowsOf(logs, j)) = MaxRetrySetting

(***************************************************************************)
(* Properties of the delivery log.                                         *)
(***************************************************************************)
\* C11: every DeliveryLog row carries as attempt_count the 1-based number
\* of the execution of its job that created it, so the rows of a job that
\* fails several times carry 1, 2, 3, ...
C11_AttemptCountIsAttemptNumber ==
    \A l \in logs : l.attempt_count = l.attempt

\* The row l1 was created before the row l2: an earlier execution of the
\* same job created it, or l2 comes from the manual retry that named l1.
CreatedBefore(l1, l2) ==
    \/ l1.job = l2.job /\ l1.attempt < l2.attempt
    \/ \E a \in AdminRequests :
           /\ adm[a].op = "retryFailedDelivery"
           /\ adm[a].logId = l1.id
           /\ l2.job = JobId("retry", a, 0)

\* C12: of two DeliveryLog rows of one (event_id, subscription_id) pair,
\* the later one has the strictly larger attempt_count.
C12_AttemptCountIncreases ==
    \A l1 \in logs, l2 \in logs :
        (/\ l1.event_id = l2.event_id
         /\ l1.subscription_id = l2.subscription_id
         /\ CreatedBefore(l1, l2)) => l1.attempt_count < l2.attempt_count

\* C13: every DeliveryLog row with status success has a response_status_code
\* from 200 to 299.
C13_SuccessIs2xx ==
    \A l \in logs :
        l.status = "success" =>
            /\ l.response_status_code # Null
            /\ l.response_status_code[1] >= 200
            /\ l.response_status_code[1] <= 299

\* A pair has a row of a delivery the sink answered with 500 and a row of a
\* delivery it answered with 200.
C13_Witness ==
    \E l1 \in logs, l2 \in logs :
        /\ l1.event_id = l2.event_id
        /\ l1.subscription_id = l2.subscription_id
        /\ l1.status = "failed" /\ l1.response_status_code = Some(500)
        /\ l2.status = "success" /\ l2.response_status_code = Some(200)

\* C14: a DeliveryLog row whose status is success or failed is never changed
\* again: every step leaves it in the table with every field as it was.
C14_TerminalRowsFrozen ==
    [][\A l \in logs : l.status \in {"success", "failed"} => l \in logs']_vars

\* A job failed its first attempt and succeeded in its second, and a manual
\* retry of the failed row has run a further delivery for the pair: the
\* failed row is still there beside the rows written after it.
C14_Witness ==
    \E l1 \in logs, l2 \in logs, l3 \in logs, a \in AdminRequests :
        /\ l1.job = l2.job /\ l1.attempt = 1 /\ l2.attempt = 2
        /\ l1.status = "failed"
        /\ l2.status = "success"
        /\ adm[a].op = "retryFailedDelivery" /\ adm[a].logId = l1.id
        /\ l3.job = JobId("retry", a, 0)
        /\ l3.status \in {"success", "failed"}

(***************************************************************************)
(* Properties of the subscriptions and of the fan-out.                     *)
(***************************************************************************)
\* C15: at most one active Subscription exists for an (event_type,
\* target_url) pair, and of two creates that race for a pair the one that
\* does not insert is answered 409 DUPLICATE_SUBSCRIPTION.
C15_OneActiveSubscriptionPerPair ==
    /\ \A s1 \in subs, s2 \in subs :
           (/\ s1.is_active /\ s2.is_active
            /\ s1.event_type = s2.event_type
            /\ s1.target_url = s2.target_url) => s1 = s2
    /\ \A a \in AdminRequests :
           (adm[a].op = "createSubscription" /\ adm[a].refused) =>
               adm[a].status = 409 /\ adm[a].code = "DUPLICATE_SUBSCRIPTION"

FanOutJobs == {j \in JobIds : jobs[j].type = "process-webhook-deliveries"}

\* The ids of the subscriptions that are active for an event type now.
ActiveFor(eventType) ==
    {s.id : s \in {t \in subs : t.is_active /\ t.event_type = eventType}}

\* The worker takes a fan-out job: while a subscription is active for the
\* event's type the job does not end there, it goes on to the fan-out.
FanOutRuns ==
    \A j \in FanOutJobs :
        (/\ jobs[j].state = "waiting"
         /\ jobs'[j].state # "waiting"
         /\ ActiveFor(jobs[j].eventType) # {}) => jobs'[j].state = "active"

\* The fan-out reads the subscriptions: it has a delivery to enqueue for
\* each subscription active for the event's type at that moment, and for no
\* other; without any it completes.
FanOutFindsActive ==
    \A j \in FanOutJobs :
        (jobs[j].pc = "findMany" /\ jobs'[j].pc # "findMany") =>
            IF ActiveFor(jobs[j].eventType) = {}
            THEN jobs'[j].state = "completed" /\ jobs'[j].pending = {}
            ELSE /\ jobs'[j].state = "active"
                 /\ jobs'[j].pending = ActiveFor(jobs[j].eventType)

\* Each delivery the fan-out has to enqueue is enqueued once, as a job for
\* the event and that subscription (unless the queue refuses it), and the
\* fan-out adds no other job.
FanOutEnqueuesEach ==
    /\ \A j \in FanOutJobs :
           jobs[j].pc # "findMany" =>
               /\ jobs'[j].pending \subseteq jobs[j].pending
               /\ \A s \in jobs[j].pending \ jobs'[j].pending :
                      \/ jobs'[j].addFailed
                      \/ /\ JobId("fanout", j[2], s) \notin JobIds
                         /\ JobId("fanout", j[2], s) \in DOMAIN jobs'
                         /\ jobs'[JobId("fanout", j[2], s)].type = "deliver-webhook"
                         /\ jobs'[JobId("fanout", j[2], s)].eventId = jobs[j].eventId
                         /\ jobs'[JobId("fanout", j[2], s)].subscriptionId = s
                         /\ jobs'[JobId("fanout", j[2], s)].state = "waiting"
               /\ (jobs[j].state = "active" /\ jobs'[j].state = "completed") =>
                      jobs[j].pending = {} /\ ~jobs[j].addFailed
    /\ \A d \in (DOMAIN jobs') \ JobIds :
           d[1] = "fanout" =>
               /\ JobId("request", d[2], 0) \in FanOutJobs
               /\ d[3] \in jobs[JobId("request", d[2], 0)].pending

\* A delivery goes to the URL of the subscription of its job, and to no
\* other subscription's.
DeliveryTargetsOwnUrl ==
    \A p \in posts' \ posts :
        /\ p.subscription_id = jobs[p.job].subscriptionId
        /\ p.event_id = jobs[p.job].eventId
        /\ jobs[p.job].subscription.id = p.subscription_id
        /\ jobs[p.job].subscription.target_url = p.target_url
        /\ \A s \in subs : s.id = p.subscription_id => s.target_url = p.target_url

\* C16: the fan-out of an event enqueues exactly one delivery job for each
\* subscription that is active for the event's type when the fan-out job
\* runs, none for an inactive subscription or one of another type, and a
\* delivery is sent to the target_url of its own subscription only.
C16_FanOutPerActiveSubscription ==
    [][/\ FanOutRuns
       /\ FanOutFindsActive
       /\ FanOutEnqueuesEach
       /\ DeliveryTargetsOwnUrl]_vars

\* The subscription of a delivery job is missing or inactive now.
SubscriptionGone(j) ==
    \A s \in subs : s.id = jobs[j].subscriptionId => ~s.is_active

\* C17: when a delivery job runs and finds its subscription missing or
\* inactive, the attempt ends there: it creates no DeliveryLog row and
\* sends no HTTP POST.
C17_NoDeliveryToInactive ==
    [][\A j \in DeliveryJobs :
          (/\ jobs[j].state = "active"
           /\ jobs[j].pc = "findUnique"
           /\ jobs'[j] # jobs[j]
           /\ SubscriptionGone(j)) =>
              /\ jobs'[j].state \in {"waiting", "failed"}
              /\ jobs'[j].attemptsMade = jobs[j].attemptsMade + 1
              /\ logs' = logs
              /\ posts' = posts
              /\ \A l \in logs' : l.id # LogId(j, jobs[j])
              /\ \A p \in posts' : p.log_id # LogId(j, jobs[j])]_vars

\* A delivery job has ended an attempt, its subscription is inactive or
\* deleted, and the job has written no row and sent no POST.
C17_Witness ==
    \E j \in DeliveryJobs :
        /\ jobs[j].attemptsMade = MAX_RETRY_ATTEMPTS
        /\ jobs[j].state = "failed"
        /\ SubscriptionGone(j)
        /\ RowsOf(logs, j) = {}
        /\ PostsOf(posts, j) = {}


\* ---------------------------------------------------------------------
\* C18: POST /delivery-logs/:id/retry on a log whose status is success
\* answers 400 INVALID_RETRY, and on a log (not success) whose subscription
\* is inactive answers 400 INACTIVE_SUBSCRIPTION; in both cases the step
\* changes no job and no store row, and the request never has a job in the
\* queue.
\* ---------------------------------------------------------------------
RetryChecks(a) ==
    /\ adm[a].op = "retryFailedDelivery"
    /\ adm[a].pc = "findUnique"
    /\ adm'[a] # adm[a]

RetryRefusedAs(a, code) ==
    /\ adm'[a].pc = "done"
    /\ adm'[a].status = 400
    /\ adm'[a].code = code
    /\ UNCHANGED <<jobs, events, subs, logs, posts>>

C18_RefusalStep ==
    \A a \in AdminRequests : RetryChecks(a) =>
        \A l \in logs : l.id = adm[a].logId =>
            /\ l.status = "success" => RetryRefusedAs(a, "INVALID_RETRY")
            /\ ( /\ l.status # "success"
                 /\ \E s \in subs : s.id = l.subscription_id /\ ~s.is_active )
                   => RetryRefusedAs(a, "INACTIVE_SUBSCRIPTION")

C18_NothingEnqueued ==
    \A a \in AdminRequests :
        adm[a].code \in {"INVALID_RETRY", "INACTIVE_SUBSCRIPTION"}
            => JobId("retry", a, 0) \notin JobIds

C18_RetryRefused == []C18_NothingEnqueued /\ [][C18_RefusalStep]_vars

C18_Witness ==
    \E a \in AdminRequests :
        /\ adm[a].pc = "done"
        /\ adm[a].code = "INACTIVE_SUBSCRIPTION"
        /\ \E l \in logs : l.id = adm[a].logId /\ l.status = "failed"


\* ---------------------------------------------------------------------
\* C19: a manual retry that passes the checks (log not success,
\* subscription active) goes on to the enqueue, and the enqueue that
\* answers 200 adds exactly one new delivery job, carrying the event_id and
\* subscription_id of the log named in the request, with the retry policy
\* of the delivery jobs the fan-out creates: attempts = MAX_RETRY_ATTEMPTS
\* and exponential backoff from 2 s.
\* ---------------------------------------------------------------------
RetryPassesChecks(a) ==
    \E l \in logs :
        /\ l.id = adm[a].logId
        /\ l.status # "success"
        /\ \E s \in subs : s.id = l.subscription_id /\ s.is_active

RetryEnqueues(a) ==
    /\ adm[a].op = "retryFailedDelivery"
    /\ adm[a].pc = "queue"
    /\ adm'[a].status = 200

FanOutCreated == {j \in DeliveryJobs : j[1] = "fanout"}

C19_AcceptedStep ==
    \A a \in AdminRequests :
        /\ (RetryChecks(a) /\ RetryPassesChecks(a)) => adm'[a].pc = "queue"
        /\ RetryEnqueues(a) =>
              \E j \in DOMAIN jobs' \ DOMAIN jobs :
                  /\ DOMAIN jobs' = DOMAIN jobs \cup {j}
                  /\ \A i \in DOMAIN jobs : jobs'[i] = jobs[i]
                  /\ jobs'[j].type = "deliver-webhook"
                  /\ jobs'[j].state = "waiting"
                  /\ jobs'[j].attemptsMade = 0
                  /\ \E l \in logs :
                        /\ l.id = adm[a].logId
                        /\ jobs'[j].eventId = l.event_id
                        /\ jobs'[j].subscriptionId = l.subscription_id
                  /\ jobs'[j].attempts = MAX_RETRY_ATTEMPTS
                  /\ jobs'[j].backoff = [type |-> "exponential", delay |-> 2000]
                  /\ \A f \in FanOutCreated :
                        /\ jobs'[j].attempts = jobs[f].attempts
                        /\ jobs'[j].backoff = jobs[f].backoff

C19_AcceptedRetryEnqueuesOne == [][C19_AcceptedStep]_vars

C19_Witness ==
    \E a \in AdminRequests :
        /\ adm[a].op = "retryFailedDelivery"
        /\ adm[a].status = 200
        /\ JobId("retry", a, 0) \in JobIds
        /\ jobs[JobId("retry", a, 0)].attempts = 2
        /\ \E l \in logs : l.id = adm[a].logId /\ l.status = "failed"


\* ---------------------------------------------------------------------
\* C20: a manual retry leaves every DeliveryLog row that it did not create
\* unchanged, the row named in the request included: neither a step of the
\* retry request nor a step of the job it enqueued changes or removes a row
\* of another job; the rows the retry job writes are new rows of its own
\* pair, and the first of them has attempt_count 1.
\* ---------------------------------------------------------------------
RetryJobs == {j \in JobIds : j[1] = "retry"}

RetryJobStep(j) == jobs'[j] # jobs[j]

RetryRequestStep(a) ==
    /\ adm[a].op = "retryFailedDelivery" \/ adm'[a].op = "retryFailedDelivery"
    /\ adm'[a] # adm[a]

C20_RetryFrame ==
    /\ \A a \in AdminRequests : RetryRequestStep(a) => logs' = logs
    /\ \A j \in RetryJobs : RetryJobStep(j) =>
          /\ \A l \in logs : l.job # j => l \in logs'
          /\ \A l \in logs' \ logs :
                /\ l.job = j
                /\ l.event_id = jobs[j].eventId
                /\ l.subscription_id = jobs[j].subscriptionId
                /\ (\A k \in logs : k.job # j) => l.attempt_count = 1

C20_FirstRetryRow ==
    \A l \in logs :
        ( /\ l.job \in RetryJobs
          /\ \A k \in logs : k.job = l.job => k.attempt >= l.attempt )
            => l.attempt_count = 1

C20_RetryLeavesOldRows == []C20_FirstRetryRow /\ [][C20_RetryFrame]_vars

C20_Witness ==
    \E a \in AdminRequests :
        /\ JobId("retry", a, 0) \in JobIds
        /\ jobs[JobId("retry", a, 0)].state = "completed"
        /\ \E old \in logs, new \in logs :
              /\ old.id = adm[a].logId
              /\ old.status = "failed"
              /\ new.job = JobId("retry", a, 0)
              /\ new.status = "success"
              /\ new.attempt_count = 1
              /\ new.event_id = old.event_id
              /\ new.subscription_id = old.subscription_id


\* ---------------------------------------------------------------------
\* C21: an Event row is never mutated after creation: no step of an
\* ingestion, a fan-out, a delivery, a manual retry or an admin request
\* changes or removes a row of the Event table, so a repeated POST with the
\* same key and another body leaves event_type and payload as first written.
\* ---------------------------------------------------------------------
C21_EventRowsKept == \A e \in events : e \in events'

C21_EventNeverMutated == [][C21_EventRowsKept]_vars

C21_Witness ==
    \E e \in events, r \in Requests :
        /\ req[r].pc = "done"
        /\ req[r].status = 202
        /\ ~req[r].inserted
        /\ req[r].eventId = e.id
        /\ req[r].header.s = e.idempotency_key
        /\ req[r].eventType # e.event_type
        /\ \E l \in logs : l.event_id = e.id /\ l.status = "failed"
        /\ adm[1].op = "retryFailedDelivery" /\ adm[1].status = 200


\* ---------------------------------------------------------------------
\* C22: deleting a subscription leaves every DeliveryLog row written for
\* it in the store, unchanged, and the log query still returns it: the
\* delete that answers 200 keeps each row of the subscription, and a row
\* whose subscription is gone is returned, with its fields, by the query
\* filtered by its subscription and by the query filtered by its event.
\* ---------------------------------------------------------------------
DeleteSucceeds(a) ==
    /\ adm[a].pc = "idle"
    /\ adm'[a].op = "deleteSubscription"
    /\ adm'[a].status = 200

Readable(l, lg, evs, sbs, where) ==
    \E item \in getDeliveryLogs(lg, evs, sbs, where) :
        /\ item.id = l.id
        /\ item.status = l.status
        /\ item.attemptCount = l.attempt_count
        /\ item.responseStatusCode = l.response_status_code
        /\ item.responseBody = l.response_body
        /\ item.errorMessage = l.error_message

BySubscription(l) ==
    [eventId |-> NoFilter, subscriptionId |-> l.subscription_id,
     status |-> NoStatusFilter]

ByEvent(l) ==
    [eventId |-> l.event_id, subscriptionId |-> NoFilter, status |-> l.status]

C22_DeleteStep ==
    \A a \in AdminRequests : DeleteSucceeds(a) =>
        \A l \in logs : l.subscription_id = adm'[a].subscriptionId =>
            /\ l \in logs'
            /\ Readable(l, logs', events', subs', BySubscription(l))

C22_OrphanReadable ==
    \A l \in logs : (\A s \in subs : s.id # l.subscription_id) =>
        /\ Readable(l, logs, events, subs, BySubscription(l))
        /\ Readable(l, logs, events, subs, ByEvent(l))

AttemptsQuiesced ==
    /\ \A j \in JobIds : jobs[j].state # "active"
    /\ \A l \in logs : l.status # "pending"

C23_QuiescedBeforeExit ==
    proc \in {"closed", "exited"} => AttemptsQuiesced


\* ---------------------------------------------------------------------
\* C24: delivery outcomes never reach the producer.  The answer to a
\* POST /events is decided by the request and the Event table alone: 400
\* for a missing header or an invalid body, 409 when the insert was
\* refused, and otherwise 202 with the id of the event stored under the
\* key, whatever the subscriptions are and whatever their endpoints
\* answered; an answer that has been given never changes, and a step of
\* the request handler writes no DeliveryLog row and sends no POST.
\* ---------------------------------------------------------------------
ResponseOf(r) == <<req[r].status, req[r].code, req[r].eventId>>

ExpectedResponses(r) ==
    IF HeaderMissing(req[r].header)
    THEN {<<400, "MISSING_IDEMPOTENCY_KEY", 0>>}
    ELSE IF validateEventRequest(req[r].eventType, req[r].payload) # ""
    THEN {<<400, "VALIDATION_ERROR", 0>>}
    ELSE IF req[r].lostInsert
    THEN {<<409, "DUPLICATE_IDEMPOTENCY_KEY", 0>>}
    ELSE {<<202, "", e.id>> :
             e \in {x \in events : x.idempotency_key = req[r].header.s}}

C24_ResponseOfRequest ==
    \A r \in Requests : req[r].pc = "done" =>
        /\ ResponseOf(r) \in ExpectedResponses(r)
        /\ Cardinality(ExpectedResponses(r)) = 1

C24_ResponseKept ==
    \A r \in Requests :
        /\ req[r].pc = "done" => req'[r] = req[r]
        /\ req'[r] # req[r] => UNCHANGED <<logs, posts, subs>>

C24_ProducerSeesNoDelivery ==
    []C24_ResponseOfRequest /\ [][C24_ResponseKept]_vars

C24_Witness ==
    \E r1 \in Requests, r2 \in Requests :
        /\ r1 # r2
        /\ req[r1].pc = "done" /\ req[r1].inserted
        /\ req[r2].pc = "done" /\ req[r2].prior # {}
        /\ ResponseOf(r1) = ResponseOf(r2)
        /\ req[r1].status = 202
        /\ \E l \in logs : l.event_id = req[r1].eventId /\ l.status = "failed"
        /\ \E l \in logs : l.event_id = req[r1].eventId /\ l.status = "success"
        /\ Cardinality(subs) = 2


\* ---------------------------------------------------------------------
\* C25: for every outbound delivery the signature header is "sha256="
\* followed by the hex HMAC-SHA256, keyed with the secret_key of the
\* subscription delivered to (the secret its create request returned), of
\* exactly the body posted in that request; the body is the text of the
\* event the delivery is for.
\* ---------------------------------------------------------------------
SecretReturnedFor(subscriptionId) == adm[subscriptionId].secretKey

C25_SignatureOverPostedBody ==
    \A p \in posts :
        /\ p.subscription_id \in AdminRequests
        /\ adm[p.subscription_id].op = "createSubscription"
        /\ adm[p.subscription_id].status = 201
        /\ p.headers.signature =
              <<"sha256=", <<"hmac-sha256-hex",
                             SecretReturnedFor(p.subscription_id), p.body>>>>
        /\ \E e \in events :
              /\ e.id = p.event_id
              /\ p.body = <<"json", [id |-> e.id, eventType |-> e.event_type,
                                     payload |-> e.payload,
                                     idempotencyKey |-> e.idempotency_key]>>

C25_Witness ==
    \E p1 \in posts, p2 \in posts :
        /\ p1.subscription_id # p2.subscription_id
        /\ p1.body = p2.body
        /\ p1.headers.signature # p2.headers.signature


\* ---------------------------------------------------------------------
\* C26: a subscription's secret_key is disclosed exactly once: the 201 of
\* the create request that generated it carries it, and no other response
\* does: not that of an update, a delete or a retry, and not what the
\* subscription list, the delivery-log list, the event inspection or the
\* statistics return in any state and for any filter.
\* ---------------------------------------------------------------------
SecretFields == {"secretKey", "secret_key"}

NoSecretField(body) == DOMAIN body \cap SecretFields = {}

\* The admin requests whose response carries this secret.
Disclosures(secret) == {a \in AdminRequests : adm[a].secretKey = secret}

SubscriptionFilters ==
    [eventType : {<<>>, TypeA.s, TypeZ.s}, isActive : {"", "true", "false"}]

DeliveryLogFilters ==
    [eventId : {NoFilter}, subscriptionId : {NoFilter},
     status : {NoStatusFilter, "failed"}]

C26_WritesDiscloseOnce ==
    /\ \A a \in AdminRequests : adm[a].secretKey # NoSecret =>
          /\ adm[a].op = "createSubscription"
          /\ adm[a].status = 201
          /\ \A s \in subs : s.id = adm[a].subscriptionId
                                => s.secret_key = adm[a].secretKey
    /\ \A s \in subs :
          /\ s.secret_key # NoSecret
          /\ Disclosures(s.secret_key) = {s.id}
          /\ \A t \in subs : t.secret_key = s.secret_key => t = s

C26_ReadsDiscloseNothing ==
    /\ \A where \in SubscriptionFilters :
          \A item \in getSubscriptions(subs, logs, where) : NoSecretField(item)
    /\ \A where \in DeliveryLogFilters :
          \A item \in getDeliveryLogs(logs, events, subs, where) :
              /\ NoSecretField(item)
              /\ \A t \in item.subscription : NoSecretField(t)
    /\ \A e \in events :
          \A item \in getEventById(events, logs, subs, e.id) :
              /\ NoSecretField(item)
              /\ \A l \in item.deliveryLogs :
                    /\ NoSecretField(l)
                    /\ \A t \in l.subscription : NoSecretField(t)
    /\ \A f \in DOMAIN getSystemStats(events, subs, logs) :
          NoSecretField(getSystemStats(events, subs, logs)[f])

C26_SecretDisclosedOnce == C26_WritesDiscloseOnce /\ C26_ReadsDiscloseNothing

C26_Witness ==
    \E a \in AdminRequests, b \in AdminRequests, s \in subs :
        /\ adm[a].op = "createSubscription" /\ adm[a].status = 201
        /\ adm[a].secretKey = s.secret_key
        /\ adm[b].op = "updateSubscription" /\ adm[b].status = 200
        /\ adm[b].subscriptionId = s.id
        /\ \E item \in getDeliveryLogs(logs, events, subs,
                          [eventId |-> NoFilter, subscriptionId |-> s.id,
                           status |-> NoStatusFilter]) :
              item.subscription # {}
        /\ getSubscriptions(subs, logs, [eventType |-> <<>>, isActive |-> ""])
              # {}


\* ---------------------------------------------------------------------
\* C27: every DeliveryLog row created in pending eventually reaches
\* success or failed, under fair scheduling of the worker, also when a
\* write to the store fails or the job is retried.
\* ---------------------------------------------------------------------
AllLogIds == {<<j, n>> : j \in AllJobIds, n \in 1..MaxRetrySetting}

RowIs(id, statuses) == \E l \in logs : l.id = id /\ l.status \in statuses

C27_PendingRowsFinish ==
    \A id \in AllLogIds :
        RowIs(id, {"pending"}) ~> RowIs(id, {"success", "failed"})


\* ---------------------------------------------------------------------
\* C28: for one (event, subscription) pair, an attempt starts only after
\* the previous attempt for the pair has written its terminal
\* DeliveryLog: at no time does the store hold two pending rows for the
\* same pair, duplicate delivery jobs and manual retries included.
PendingRowsOfPair(eventId, subscriptionId) ==
    {l \in logs : /\ l.status = "pending"
                  /\ l.event_id = eventId
                  /\ l.subscription_id = subscriptionId}

C28_OnePendingRowPerPair ==
    \A l \in logs :
        Cardinality(PendingRowsOfPair(l.event_id, l.subscription_id)) <= 1


\* ---------------------------------------------------------------------
\* C29: when the sink answers with a status outside 200-299, the
\* attempt's DeliveryLog is finished as failed carrying that status code,
\* and the worker then raises a failure to the queue, which schedules the
\* next attempt while attempts remain; the failure is raised only after
\* the failed row has been written.
SinkRefused(j) ==
    /\ jobs[j].type = "deliver-webhook"
    /\ jobs[j].state = "active"
    /\ jobs[j].pc = "update"
    /\ jobs[j].response.kind = "response"
    /\ jobs[j].response.status \notin 200..299

\* The step in which the worker handles the sink's answer: the row of the
\* attempt is failed with the sink's status in the state in which the
\* failure has reached the queue.
C29_FailureStep ==
    \A j \in JobIds :
        SinkRefused(j) /\ jobs'[j] # jobs[j] =>
            /\ \E l \in logs' :
                   /\ l.id = jobs[j].logId
                   /\ l.status = "failed"
                   /\ l.response_status_code = Some(jobs[j].response.status)
            /\ \A l \in logs' : l.id = jobs[j].logId => l.status = "failed"
            /\ jobs'[j].attemptsMade = jobs[j].attemptsMade + 1
            /\ jobs'[j].state =
                   IF jobs[j].attemptsMade + 1 < jobs[j].attempts
                   THEN "waiting" ELSE "failed"

\* No failure of an attempt has reached the queue while the attempt waits
\* for its write: the job is held by the worker until the row is written.
C29_NotRaisedBeforeWrite ==
    \A j \in JobIds :
        SinkRefused(j) =>
            /\ jobs[j].attemptsMade + 1 = jobs[j].logId[2]
            /\ \E l \in logs : l.id = jobs[j].logId /\ l.status = "pending"

C29_FailedRowThenFailure ==
    []C29_NotRaisedBeforeWrite /\ [][C29_FailureStep]_vars


\* ---------------------------------------------------------------------
\* C30: when the HTTP call fails at transport level (DNS, connect, TLS,
\* timeout, abort), so that no response exists, the attempt's DeliveryLog
\* is finished as failed with response_status_code null, response_body
\* null and a non-empty error_message, and the failure is raised to the
\* queue for retry.
NoResponseFromSink(j) ==
    /\ jobs[j].type = "deliver-webhook"
    /\ jobs[j].state = "active"
    /\ jobs[j].pc = "update"
    /\ jobs[j].response = TransportError

C30_TransportFailureStep ==
    \A j \in JobIds :
        NoResponseFromSink(j) /\ jobs'[j] # jobs[j] =>
            /\ \E l \in logs' :
                   /\ l.id = jobs[j].logId
                   /\ l.status = "failed"
                   /\ l.response_status_code = Null
                   /\ l.response_body = Null
                   /\ l.error_message \notin {Null, Some("")}
            /\ jobs'[j].attemptsMade = jobs[j].attemptsMade + 1
            /\ jobs'[j].state =
                   IF jobs[j].attemptsMade + 1 < jobs[j].attempts
                   THEN "waiting" ELSE "failed"

C30_TransportFailureRecorded == [][C30_TransportFailureStep]_vars


\* ---------------------------------------------------------------------
\* C31: every DeliveryLog row with status failed records either a
\* response_status_code outside 200-299 that the sink returned, or an
\* error_message describing a transport-level error of the HTTP call.
\* A status a sink can return is an HTTP status, 100 to 599.
RecordsNon2xx(l) ==
    /\ l.response_status_code # Null
    /\ l.response_status_code[1] \in 100..599
    /\ l.response_status_code[1] \notin 200..299

RecordsTransportError(l) == l.error_message = Some("transport error")

C31_FailedRowsRecordCause ==
    \A l \in logs :
        l.status = "failed" => RecordsNon2xx(l) \/ RecordsTransportError(l)


\* ---------------------------------------------------------------------
\* C32: when a delivery job runs and its subscription is missing or
\* inactive, the job completes successfully as a drop: it is not reported
\* failed to the queue and is not retried.
DeliveryLoadsSubscription(j) ==
    /\ jobs[j].type = "deliver-webhook"
    /\ jobs[j].state = "active"
    /\ jobs[j].pc = "findUnique"

C32_DropStep ==
    \A j \in JobIds :
        (/\ DeliveryLoadsSubscription(j)
         /\ SubscriptionGone(j)
         /\ jobs'[j] # jobs[j]) =>
            /\ jobs'[j].state = "completed"
            /\ logs' = logs

C32_DropCompletesJob == [][C32_DropStep]_vars


\* ---------------------------------------------------------------------
\* C33: if any individual delivery-job enqueue fails during fan-out, the
\* fan-out job is reported failed, never completed as successful, and
\* the queue retries the fan-out job, so that every active subscriber of
\* the event eventually has a delivery job.
FanOutSettlesAfterFailedAdd(j) ==
    /\ jobs[j].type = "process-webhook-deliveries"
    /\ jobs[j].state = "active"
    /\ jobs[j].pc = "enqueue"
    /\ jobs[j].addFailed
    /\ jobs'[j].state # "active"

\* The step that ends a fan-out run in which an add has thrown: the run
\* counts as failed, and the job waits for its next run.
C33_FailedFanOutStep ==
    \A j \in JobIds :
        FanOutSettlesAfterFailedAdd(j) =>
            /\ jobs'[j].attemptsMade = jobs[j].attemptsMade + 1
            /\ jobs'[j].state = "waiting"

C33_FailedFanOutRetried == [][C33_FailedFanOutStep]_vars


\* ---------------------------------------------------------------------
\* C34: DeliveryLog creation is non-upserting: every delivery attempt
\* that reaches the HTTP call creates its own new row and writes its
\* outcome only to that row, so duplicate delivery jobs and retries for
\* one (event, subscription) pair never overwrite or share a row, and the
\* number of rows of a pair equals the number of attempts that reached
\* the HTTP call.
RowsOfPair(eventId, subscriptionId) ==
    {l \in logs : l.event_id = eventId /\ l.subscription_id = subscriptionId}

\* The attempts of a pair that have created their row and are about to
\* issue their POST.
AboutToPost(eventId, subscriptionId) ==
    {j \in DeliveryJobs : /\ jobs[j].state = "active"
                          /\ jobs[j].pc = "post"
                          /\ jobs[j].eventId = eventId
                          /\ jobs[j].subscriptionId = subscriptionId}

\* Every POST has a row of its own, and a pair has one row for each attempt
\* that has reached the HTTP call.
C34_OneRowPerAttempt ==
    /\ \A l1 \in logs, l2 \in logs : l1.id = l2.id => l1 = l2
    /\ \A p \in posts :
           \E l \in logs : /\ l.id = p.log_id
                           /\ l.job = p.job
                           /\ l.event_id = p.event_id
                           /\ l.subscription_id = p.subscription_id
    /\ \A p1 \in posts, p2 \in posts : p1.log_id = p2.log_id => p1 = p2
    /\ \A j \in DeliveryJobs :
           Cardinality(RowsOfPair(jobs[j].eventId, jobs[j].subscriptionId))
             = Cardinality(PostsOfPair(jobs[j].eventId, jobs[j].subscriptionId))
               + Cardinality(AboutToPost(jobs[j].eventId, jobs[j].subscriptionId))

\* A step creates at most one row and leaves every row it found; the one
\* row it may rewrite is the row of the attempt that takes the step.
C34_OwnRowStep ==
    /\ \A l \in logs : \E l2 \in logs' : l2.id = l.id
    /\ Cardinality(logs') <= Cardinality(logs) + 1
    /\ \A l \in logs :
           l \notin logs' =>
               \E j \in DeliveryJobs :
                   /\ jobs[j].state = "active"
                   /\ jobs[j].pc = "update"
                   /\ jobs[j].logId = l.id
                   /\ l.job = j
                   /\ jobs'[j] # jobs[j]

C34_RowsNotShared == []C34_OneRowPerAttempt /\ [][C34_OwnRowStep]_vars

\* A pair has three rows: two of the attempts of its fan-out job and one
\* of a manual retry, each with a POST of its own.
C34_Witness ==
    \E l1 \in logs, l2 \in logs, l3 \in logs :
        /\ l1.job = l2.job
        /\ l1.attempt < l2.attempt
        /\ l3.job # l1.job
        /\ l3.event_id = l1.event_id
        /\ l3.subscription_id = l1.subscription_id
        /\ \A l \in {l1, l2, l3} : \E p \in posts : p.log_id = l.id
        /\ l1.status = "failed"
        /\ l3.status = "success"


\* ---------------------------------------------------------------------
\* C35: the delivery worker does not act on a stale copy of a
\* subscription: under any interleaving with subscription update and
\* delete, no HTTP POST is issued to a subscription that is inactive or
\* deleted at the moment the POST is issued.
C35_PostStep ==
    \A p \in posts' \ posts :
        \E s \in subs : s.id = p.subscription_id /\ s.is_active

C35_NoPostToStaleSubscription == [][C35_PostStep]_vars


\* ---------------------------------------------------------------------
\* C36: the manual retry endpoint retries failed deliveries only: it
\* enqueues a delivery job only when the referenced log's status is
\* failed, and a log still pending (its attempt in flight) is not
\* re-queued.
C36_RetryAdmittedStep ==
    \A a \in AdminRequests :
        RetryChecks(a) /\ adm'[a].pc = "queue" =>
            \A l \in logs : l.id = adm[a].logId => l.status = "failed"

C36_RetryEnqueueStep ==
    \A a \in AdminRequests :
        RetryEnqueues(a) =>
            \A l \in logs : l.id = adm[a].logId => l.status = "failed"

C36_RetryOnlyFailed ==
    [][C36_RetryAdmittedStep /\ C36_RetryEnqueueStep]_vars


\* ---------------------------------------------------------------------
\* C37: for every (event, subscription) pair at most one DeliveryLog row
\* with status success exists in any reachable state: once a delivery to
\* the pair has succeeded, no later automatic retry, duplicate job or
\* manual retry of an older failed log produces another HTTP POST for
\* that pair.
SucceededRows(eventId, subscriptionId) ==
    {l \in RowsOfPair(eventId, subscriptionId) : l.status = "success"}

C37_OneSuccessRow ==
    \A l \in logs :
        Cardinality(SucceededRows(l.event_id, l.subscription_id)) <= 1

C37_NoPostAfterSuccess ==
    \A p \in posts' \ posts :
        SucceededRows(p.event_id, p.subscription_id) = {}

C37_AtMostOneSuccess == []C37_OneSuccessRow /\ [][C37_NoPostAfterSuccess]_vars


\* ---------------------------------------------------------------------
\* C38: if the sink's HTTP response has a 2xx status, the attempt's
\* DeliveryLog never ends in status failed and the delivery job is not
\* retried, even when the store write that records the success (or the
\* serialization of the response body) fails.
SinkAccepted(j) ==
    /\ jobs[j].type = "deliver-webhook"
    /\ jobs[j].state = "active"
    /\ jobs[j].pc = "update"
    /\ jobs[j].response.kind = "response"
    /\ jobs[j].response.status \in 200..299

C38_AcceptedStep ==
    \A j \in JobIds :
        SinkAccepted(j) /\ jobs'[j] # jobs[j] =>
            /\ \A l \in logs' : l.id = jobs[j].logId => l.status # "failed"
            /\ jobs'[j].state = "completed"

C38_AcceptedNeverFailed == [][C38_AcceptedStep]_vars


\* ---------------------------------------------------------------------
\* C39: every response of the stats endpoint satisfies deliveries.total =
\* successful + failed + pending, even when delivery workers create and
\* finish DeliveryLog rows while the endpoint's count queries run.
StatsAnswered(a) ==
    /\ adm[a].op = "getSystemStats"
    /\ adm[a].pc = "done"
    /\ adm[a].status = 200

C39_StatsAddUp ==
    \A a \in AdminRequests :
        StatsAnswered(a) =>
            adm[a].stats.deliveries.total =
                adm[a].stats.deliveries.successful
                    + adm[a].stats.deliveries.failed
                    + adm[a].stats.deliveries.pending


\* ---------------------------------------------------------------------
\* C40: audit completeness: every outbound HTTP POST is preceded by the
\* creation of a pending DeliveryLog row for the same (event,
\* subscription), so at every moment the number of POSTs issued for a
\* pair is at most the number of DeliveryLog rows of that pair, and a
\* failure to create the row prevents the POST.
C40_PostsHaveRows ==
    /\ \A p \in posts :
           \E l \in logs : /\ l.id = p.log_id
                           /\ l.event_id = p.event_id
                           /\ l.subscription_id = p.subscription_id
    /\ \A j \in DeliveryJobs :
           /\ Cardinality(PostsOfPair(jobs[j].eventId, jobs[j].subscriptionId))
                <= Cardinality(RowsOfPair(jobs[j].eventId,
                                          jobs[j].subscriptionId))
           /\ Cardinality(PostsOf(posts, j)) <= Cardinality(RowsOf(logs, j))

\* A POST is issued on a row that is there and pending.
C40_PostStep ==
    \A p \in posts' \ posts :
        \E l \in logs : /\ l.id = p.log_id
                        /\ l.status = "pending"
                        /\ l.event_id = p.event_id
                        /\ l.subscription_id = p.subscription_id

\* The attempt whose create throws ends there: no row, no POST, and the
\* failure goes to the queue.
C40_CreateFailedStep ==
    \A j \in DeliveryJobs :
        (/\ jobs[j].state = "active"
         /\ jobs[j].pc = "create"
         /\ jobs'[j] # jobs[j]
         /\ logs' = logs) =>
            /\ posts' = posts
            /\ jobs'[j].state \in {"waiting", "failed"}
            /\ jobs'[j].attemptsMade = jobs[j].attemptsMade + 1

C40_RowBeforePost ==
    []C40_PostsHaveRows /\ [][C40_PostStep /\ C40_CreateFailedStep]_vars

\* The create of a job's first attempt was refused; its second attempt
\* created its row and issued its POST, the only one of the job.
C40_Witness ==
    \E j \in DeliveryJobs :
        /\ jobs[j].createRefused
        /\ jobs[j].attemptsMade = 2
        /\ Cardinality(RowsOf(logs, j)) = 1
        /\ Cardinality(PostsOf(posts, j)) = 1
        /\ \A l \in RowsOf(logs, j) : l.attempt = 2

=============================================================================
